---- MODULE Spec2Model ----
(***************************************************************************)
(* FileJack: the access policy (src/src/access_control.rs) and the file    *)
(* operations built on it (src/src/file_ops.rs), over a small POSIX-like   *)
(* filesystem: directories, regular files (inodes) and symbolic links.     *)
(*                                                                         *)
(* A path is the sequence of its components below "/", ".." included; only *)
(* absolute paths are modelled.  A file name is a token whose characters   *)
(* are given by NameChars, so that file_name, extension and to_lowercase   *)
(* are computed on characters as std::path does.                           *)
(***************************************************************************)
EXTENDS Integers, Sequences, FiniteSets, TLC

VARIABLES
    policy,       \* AccessPolicy shared by FileReader and FileWriter
    create_dirs,  \* FileWriter.create_dirs
    fs,           \* directory entries: canonical location -> entry
    inodes,       \* regular-file objects: inode -> bytes
    call,         \* the read call in flight (position, validated path, handle)
    last,         \* the most recent completed call and its result
    calls,        \* number of calls begun
    changes,      \* number of changes another actor made to the disk
    rate_limiter, \* McpServer.rate_limiter
    clock,        \* the limiter's clock, in emission intervals
    admitted      \* number of requests the limiter let through

vars == <<policy, create_dirs, fs, inodes, call, last, calls, changes,
          rate_limiter, clock, admitted>>

server == <<rate_limiter, clock, admitted>>

----------------------------------------------------------------------------
(* Bounds of the model *)

\* symbolic links followed in one resolution before the OS reports ELOOP
MaxLinkHops == 2

\* calls in one run of the file operations
MaxCalls == 2

\* the reading calls of a run with another actor, and that actor's changes
MaxReads == 1
MaxChanges == 2

----------------------------------------------------------------------------
(* Names, characters, paths *)

DD == ".."

NameChars ==
    [n \in {"ws", "out", "sec", "new", "nd", "a.txt", "n.txt", "s.txt", "b.EXE",
            ".env", "noext", "li.txt", "lo.txt", "lh.txt", ".lh", "ld.txt"} |->
        CASE n = "ws"     -> <<"w", "s">>
          [] n = "out"    -> <<"o", "u", "t">>
          [] n = "sec"    -> <<"s", "e", "c">>
          [] n = "new"    -> <<"n", "e", "w">>
          [] n = "nd"     -> <<"n", "d">>
          [] n = "a.txt"  -> <<"a", ".", "t", "x", "t">>
          [] n = "n.txt"  -> <<"n", ".", "t", "x", "t">>
          [] n = "s.txt"  -> <<"s", ".", "t", "x", "t">>
          [] n = "b.EXE"  -> <<"b", ".", "E", "X", "E">>
          [] n = ".env"   -> <<".", "e", "n", "v">>
          [] n = "noext"  -> <<"n", "o", "e", "x", "t">>
          [] n = "li.txt" -> <<"l", "i", ".", "t", "x", "t">>
          [] n = "lo.txt" -> <<"l", "o", ".", "t", "x", "t">>
          [] n = "lh.txt" -> <<"l", "h", ".", "t", "x", "t">>
          [] n = ".lh"    -> <<".", "l", "h">>
          [] n = "ld.txt" -> <<"l", "d", ".", "t", "x", "t">>]

Names == DOMAIN NameChars

\* char::to_lowercase on the letters that occur
LowerChar(ch) ==
    CASE ch = "E" -> "e"
      [] ch = "X" -> "x"
      [] ch = "T" -> "t"
      [] OTHER    -> ch

to_lowercase(s) == [i \in 1..Len(s) |-> LowerChar(s[i])]

None == [some |-> FALSE]
Some(v) == [some |-> TRUE, val |-> v]

Front(p) == SubSeq(p, 1, Len(p) - 1)
Last(p) == p[Len(p)]

\* Path::parent: drops the last component, whatever it is; None for "/"
parent(p) == IF p = <<>> THEN None ELSE Some(Front(p))

\* Path::file_name: the last component if it is a normal one
file_name(p) ==
    IF p = <<>> \/ Last(p) = DD THEN None ELSE Some(Last(p))

\* position of the last "." of a character sequence, 0 if there is none
LastDot(s) ==
    LET dots == {i \in 1..Len(s) : s[i] = "."}
    IN  IF dots = {} THEN 0 ELSE CHOOSE i \in dots : \A j \in dots : j <= i

\* Path::extension: the part of file_name after its last ".", if the name
\* has one that is not its first character
extension(p) ==
    LET f == file_name(p)
    IN  IF ~f.some THEN None
        ELSE LET s == NameChars[f.val]
                 d == LastDot(s)
             IN  IF d <= 1 THEN None ELSE Some(SubSeq(s, d + 1, Len(s)))

\* Path::starts_with: component-wise prefix
starts_with(p, base) ==
    /\ Len(base) <= Len(p)
    /\ SubSeq(p, 1, Len(base)) = base

----------------------------------------------------------------------------
(* The filesystem: what the OS calls used by the code do *)

Dir == [kind |-> "dir", ino |-> 0, target |-> <<>>]
FileEntry(i) == [kind |-> "file", ino |-> i, target |-> <<>>]
Link(t) == [kind |-> "link", ino |-> 0, target |-> t]

Ok(v) == [ok |-> TRUE, val |-> v]
Err(e) == [ok |-> FALSE, err |-> e]

IsDirAt(f, slot) == slot = <<>> \/ (slot \in DOMAIN f /\ f[slot].kind = "dir")

\* Path resolution as the kernel does it: from the directory cur, follow the
\* components of rest; ".." is the parent of the directory reached; a
\* symbolic link (absolute target) restarts from "/".
RECURSIVE Walk(_, _, _, _)
Walk(f, cur, rest, hops) ==
    IF rest = <<>> THEN Ok(cur)
    ELSE IF ~IsDirAt(f, cur) THEN Err("NotADirectory")
    ELSE LET c == Head(rest) IN
         IF c = DD
         THEN Walk(f, IF cur = <<>> THEN <<>> ELSE Front(cur), Tail(rest), hops)
         ELSE LET nxt == Append(cur, c) IN
              IF nxt \notin DOMAIN f THEN Err("NotFound")
              ELSE IF f[nxt].kind = "link"
              THEN IF hops = 0 THEN Err("FilesystemLoop")
                   ELSE Walk(f, <<>>, f[nxt].target \o Tail(rest), hops - 1)
              ELSE Walk(f, nxt, Tail(rest), hops)

\* Path::canonicalize (realpath)
canonicalize(f, p) == Walk(f, <<>>, p, MaxLinkHops)

\* Path::exists, is_dir, is_file: metadata through symbolic links
exists(f, p) == canonicalize(f, p).ok

is_dir(f, p) ==
    LET r == canonicalize(f, p) IN r.ok /\ IsDirAt(f, r.val)

is_file(f, p) ==
    LET r == canonicalize(f, p)
    IN  r.ok /\ r.val \in DOMAIN f /\ f[r.val].kind = "file"

\* Where the last component of p lives, its last component not followed
\* (lstat, mkdir, unlink, rename, readlink)
Locate(f, p) ==
    IF p = <<>> \/ Last(p) = DD THEN canonicalize(f, p)
    ELSE LET d == canonicalize(f, Front(p)) IN
         IF ~d.ok THEN d
         ELSE IF ~IsDirAt(f, d.val) THEN Err("NotADirectory")
         ELSE Ok(Append(d.val, Last(p)))

\* Path::read_link().is_ok()
read_link_ok(f, p) ==
    LET l == Locate(f, p)
    IN  /\ l.ok
        /\ ~(p = <<>> \/ Last(p) = DD)
        /\ l.val \in DOMAIN f
        /\ f[l.val].kind = "link"

----------------------------------------------------------------------------
(* AccessPolicy: src/src/access_control.rs *)

\* canonicalize_path: NotFound becomes FileNotFound, any other failure Io
canonicalize_path(f, path) ==
    LET r == canonicalize(f, path)
    IN  IF r.ok THEN r
        ELSE IF r.err = "NotFound" THEN Err("FileNotFound") ELSE Err("Io")

\* Faulty variant: a path under an allowed root is never looked up in the
\* deny list (the allow list overrides the deny list)
check_denied_paths_allow_first(pol, f, canonical) ==
    IF /\ ~\E allowed \in pol.allowed_paths :
              /\ canonicalize(f, allowed).ok
              /\ starts_with(canonical, canonicalize(f, allowed).val)
       /\ \E denied \in pol.denied_paths :
              /\ canonicalize(f, denied).ok
              /\ starts_with(canonical, canonicalize(f, denied).val)
    THEN Err("PermissionDenied")
    ELSE Ok(TRUE)

\* a denied root that does not canonicalize is skipped
check_denied_paths(pol, f, canonical) ==
    IF \E denied \in pol.denied_paths :
           LET denied_canonical == canonicalize(f, denied)
           IN  /\ denied_canonical.ok
               /\ (starts_with(canonical, denied_canonical.val)
                   \/ canonical = denied_canonical.val)
    THEN Err("PermissionDenied")
    ELSE Ok(TRUE)

check_allowed_paths(pol, f, canonical) ==
    IF pol.allowed_paths = {} THEN Ok(TRUE)
    ELSE IF \E allowed \in pol.allowed_paths :
                LET allowed_canonical == canonicalize(f, allowed)
                IN  /\ allowed_canonical.ok
                    /\ (starts_with(canonical, allowed_canonical.val)
                        \/ canonical = allowed_canonical.val)
    THEN Ok(TRUE)
    ELSE Err("PermissionDenied")

\* Faulty variant: the extension is compared as written, case included
check_extension_case_sensitive(pol, path) ==
    IF extension(path).some
    THEN IF extension(path).val \in pol.denied_extensions
         THEN Err("PermissionDenied")
         ELSE IF /\ pol.allowed_extensions # {}
                 /\ extension(path).val \notin pol.allowed_extensions
         THEN Err("PermissionDenied")
         ELSE Ok(TRUE)
    ELSE IF pol.allowed_extensions # {} THEN Err("PermissionDenied")
    ELSE Ok(TRUE)

check_extension(pol, path) ==
    LET ext == extension(path) IN
    IF ext.some
    THEN LET ext_str == to_lowercase(ext.val) IN
         IF \E denied_ext \in pol.denied_extensions :
                ext_str = to_lowercase(denied_ext)
         THEN Err("PermissionDenied")
         ELSE IF /\ pol.allowed_extensions # {}
                 /\ ~\E allowed_ext \in pol.allowed_extensions :
                        ext_str = to_lowercase(allowed_ext)
         THEN Err("PermissionDenied")
         ELSE Ok(TRUE)
    ELSE IF pol.allowed_extensions # {} THEN Err("PermissionDenied")
    ELSE Ok(TRUE)

check_hidden_files(pol, path) ==
    LET filename == file_name(path) IN
    IF /\ ~pol.allow_hidden_files
       /\ filename.some
       /\ NameChars[filename.val][1] = "."
    THEN Err("PermissionDenied")
    ELSE Ok(TRUE)

\* the link test made on the canonical path, which never is a link
check_symlinks_of_canonical(pol, f, original, canonical) ==
    IF ~pol.allow_symlinks /\ original # canonical /\ read_link_ok(f, canonical)
    THEN Err("PermissionDenied")
    ELSE Ok(TRUE)

check_symlinks(pol, f, original, canonical) ==
    IF ~pol.allow_symlinks /\ original # canonical /\ read_link_ok(f, original)
    THEN Err("PermissionDenied")
    ELSE Ok(TRUE)

\* the `?` chain of a validation: the first failing check, else the path
first_failure(checks, path) ==
    IF \E i \in 1..Len(checks) : ~checks[i].ok
    THEN checks[CHOOSE i \in 1..Len(checks) :
                    ~checks[i].ok /\ \A j \in 1..(i - 1) : checks[j].ok]
    ELSE Ok(path)

\* Faulty variant: containment in the allowed roots is decided on the path
\* as given, not on its canonical form
validate_read_raw_containment(pol, f, path, canonical) ==
    IF ~canonical.ok THEN canonical
    ELSE first_failure(<<check_denied_paths(pol, f, canonical.val),
                        check_allowed_paths(pol, f, path),
                        check_extension(pol, canonical.val),
                        check_hidden_files(pol, canonical.val),
                        check_symlinks(pol, f, path, canonical.val)>>,
                       canonical.val)

\* Faulty variant: the hidden-name check looks at the path as given, not at
\* its canonical form
validate_read_hidden_as_given(pol, f, path, canonical) ==
    IF ~canonical.ok THEN canonical
    ELSE first_failure(<<check_denied_paths(pol, f, canonical.val),
                        check_allowed_paths(pol, f, canonical.val),
                        check_extension(pol, canonical.val),
                        check_hidden_files(pol, path),
                        check_symlinks(pol, f, path, canonical.val)>>,
                       canonical.val)

\* validate_read after canonicalize_path: deny roots, allow roots, extension
\* and hidden name of the canonical path, then the symlink check
validate_read_canonical(pol, f, path, canonical) ==
    IF ~canonical.ok THEN canonical
    ELSE first_failure(<<check_denied_paths(pol, f, canonical.val),
                        check_allowed_paths(pol, f, canonical.val),
                        check_extension(pol, canonical.val),
                        check_hidden_files(pol, canonical.val),
                        check_symlinks(pol, f, path, canonical.val)>>,
                       canonical.val)

\* a faulty variant: a validation that remembers that one was made before
validate_read_once(pol, f, path) ==
    IF calls > 0 /\ validate_read_canonical(pol, f, path, canonicalize_path(f, path)).ok
    THEN Err("PermissionDenied")
    ELSE validate_read_canonical(pol, f, path, canonicalize_path(f, path))

validate_read(pol, f, path) ==
    validate_read_canonical(pol, f, path, canonicalize_path(f, path))

\* the upward walk of validate_write: the path itself if it exists, else its
\* nearest existing ancestor by Path::parent; None when the walk runs out
RECURSIVE existing_ancestor(_, _)
existing_ancestor(f, path_to_check) ==
    IF exists(f, path_to_check) THEN Some(path_to_check)
    ELSE IF parent(path_to_check).some
    THEN existing_ancestor(f, parent(path_to_check).val)
    ELSE None

\* validate_write after the ancestor is canonicalized: deny and allow roots
\* on the ancestor, extension and hidden name on the target as given
validate_write_canonical(pol, f, path, canonical) ==
    IF ~canonical.ok THEN canonical
    ELSE first_failure(<<check_denied_paths(pol, f, canonical.val),
                        check_allowed_paths(pol, f, canonical.val),
                        check_extension(pol, path),
                        check_hidden_files(pol, path)>>,
                       path)

validate_write_ancestor(pol, f, path, path_to_check) ==
    IF ~path_to_check.some THEN Err("InvalidPath")
    ELSE validate_write_canonical(pol, f, path, canonicalize_path(f, path_to_check.val))

\* Faulty variant: read-only mode protects only what already exists
validate_write_read_only_existing(pol, f, path) ==
    IF pol.read_only /\ exists(f, path) THEN Err("PermissionDenied")
    ELSE validate_write_ancestor(pol, f, path, existing_ancestor(f, path))

validate_write(pol, f, path) ==
    IF pol.read_only THEN Err("PermissionDenied")
    ELSE validate_write_ancestor(pol, f, path, existing_ancestor(f, path))

validate_file_size(pol, size) ==
    IF pol.max_file_size > 0 /\ size > pol.max_file_size
    THEN Err("PermissionDenied")
    ELSE Ok(TRUE)

----------------------------------------------------------------------------
(* OS calls that change the filesystem *)

\* the result of a call that may change the filesystem
Out(r, f, ino) == [res |-> r, fs |-> f, inodes |-> ino]

WithEntry(f, slot, e) == [x \in DOMAIN f \cup {slot} |-> IF x = slot THEN e ELSE f[x]]
WithoutEntries(f, slots) == [x \in DOMAIN f \ slots |-> f[x]]
WithData(ino, i, bytes) == [x \in DOMAIN ino \cup {i} |-> IF x = i THEN bytes ELSE ino[x]]

Below(f, slot) == {x \in DOMAIN f : x # slot /\ starts_with(x, slot)}

\* a fresh inode number: the smallest one not in use
FreshIno(ino) == CHOOSE i \in 1..(Cardinality(DOMAIN ino) + 1) : i \notin DOMAIN ino

\* inodes no directory entry and no open handle refers to are released
Release(f, ino, held) ==
    [i \in {j \in DOMAIN ino :
              j \in held \/ \E x \in DOMAIN f : f[x].kind = "file" /\ f[x].ino = j}
        |-> ino[i]]

IsDotDotOrRoot(p) == p = <<>> \/ Last(p) = DD

\* mkdir(2): the last component is not followed; an existing entry of any
\* kind is AlreadyExists
mkdir(f, p) ==
    LET l == Locate(f, p) IN
    IF ~l.ok THEN [ok |-> FALSE, err |-> l.err, fs |-> f]
    ELSE IF IsDotDotOrRoot(p) \/ l.val \in DOMAIN f
    THEN [ok |-> FALSE, err |-> "AlreadyExists", fs |-> f]
    ELSE [ok |-> TRUE, err |-> "", fs |-> WithEntry(f, l.val, Dir)]

\* std::fs::create_dir_all: mkdir; on NotFound create the parent (Path::parent)
\* first and retry; any other failure is success if the path is a directory
RECURSIVE create_dir_all(_, _)
create_dir_all(f, p) ==
    LET m == mkdir(f, p) IN
    IF m.ok THEN m
    ELSE IF m.err # "NotFound"
    THEN IF is_dir(f, p) THEN [ok |-> TRUE, err |-> "", fs |-> f] ELSE m
    ELSE LET par == parent(p) IN
         IF ~par.some THEN m
         ELSE LET r == create_dir_all(f, par.val) IN
              IF ~r.ok THEN r
              ELSE LET m2 == mkdir(r.fs, p) IN
                   IF m2.ok THEN m2
                   ELSE IF is_dir(r.fs, p) THEN [ok |-> TRUE, err |-> "", fs |-> r.fs]
                   ELSE m2

\* open(2) with O_CREAT: the entry the call opens or creates; a symbolic link
\* in the last component is followed, a dangling one names the file to create
RECURSIVE OpenTarget(_, _, _)
OpenTarget(f, p, hops) ==
    LET l == Locate(f, p) IN
    IF ~l.ok THEN l
    ELSE IF IsDotDotOrRoot(p) THEN Err("IsADirectory")
    ELSE IF l.val \notin DOMAIN f THEN l
    ELSE IF f[l.val].kind = "dir" THEN Err("IsADirectory")
    ELSE IF f[l.val].kind = "file" THEN l
    ELSE IF hops = 0 THEN Err("FilesystemLoop")
    ELSE OpenTarget(f, f[l.val].target, hops - 1)

\* OpenOptions write+create, with truncate or append: the handle is the inode
OpenForWrite(f, ino, p, truncate) ==
    LET t == OpenTarget(f, p, MaxLinkHops) IN
    IF ~t.ok THEN Out(t, f, ino)
    ELSE IF t.val \in DOMAIN f
    THEN LET i == f[t.val].ino
         IN  Out(Ok(i), f, IF truncate THEN WithData(ino, i, <<>>) ELSE ino)
    ELSE LET i == FreshIno(ino)
         IN  Out(Ok(i), WithEntry(f, t.val, FileEntry(i)), WithData(ino, i, <<>>))

\* File::open: a handle on whatever the path resolves to, directories
\* included; "at" keeps where the kernel found it, which the handle does not say
OpenForRead(f, p) ==
    LET r == canonicalize(f, p) IN
    IF ~r.ok THEN r
    ELSE IF IsDirAt(f, r.val) THEN Ok([is_file |-> FALSE, ino |-> 0, at |-> r.val])
    ELSE Ok([is_file |-> TRUE, ino |-> f[r.val].ino, at |-> r.val])

\* unlink(2)
remove_file(f, p) ==
    LET l == Locate(f, p) IN
    IF ~l.ok THEN [ok |-> FALSE, err |-> l.err, fs |-> f]
    ELSE IF IsDotDotOrRoot(p) THEN [ok |-> FALSE, err |-> "IsADirectory", fs |-> f]
    ELSE IF l.val \notin DOMAIN f THEN [ok |-> FALSE, err |-> "NotFound", fs |-> f]
    ELSE IF f[l.val].kind = "dir" THEN [ok |-> FALSE, err |-> "IsADirectory", fs |-> f]
    ELSE [ok |-> TRUE, err |-> "", fs |-> WithoutEntries(f, {l.val})]

\* rmdir(2): an empty directory, named by a normal last component
remove_dir(f, p) ==
    LET l == Locate(f, p) IN
    IF ~l.ok THEN [ok |-> FALSE, err |-> l.err, fs |-> f]
    ELSE IF IsDotDotOrRoot(p) THEN [ok |-> FALSE, err |-> "DirectoryNotEmpty", fs |-> f]
    ELSE IF l.val \notin DOMAIN f THEN [ok |-> FALSE, err |-> "NotFound", fs |-> f]
    ELSE IF f[l.val].kind # "dir" THEN [ok |-> FALSE, err |-> "NotADirectory", fs |-> f]
    ELSE IF Below(f, l.val) # {} THEN [ok |-> FALSE, err |-> "DirectoryNotEmpty", fs |-> f]
    ELSE [ok |-> TRUE, err |-> "", fs |-> WithoutEntries(f, {l.val})]

\* std::fs::remove_dir_all: a symbolic link is unlinked, not followed; a
\* directory is emptied and then removed with rmdir
remove_dir_all(f, p) ==
    LET l == Locate(f, p) IN
    IF ~l.ok THEN [ok |-> FALSE, err |-> l.err, fs |-> f]
    ELSE IF IsDotDotOrRoot(p)
    THEN [ok |-> FALSE, err |-> "DirectoryNotEmpty", fs |-> WithoutEntries(f, Below(f, l.val))]
    ELSE IF l.val \notin DOMAIN f THEN [ok |-> FALSE, err |-> "NotFound", fs |-> f]
    ELSE IF f[l.val].kind = "file" THEN [ok |-> FALSE, err |-> "NotADirectory", fs |-> f]
    ELSE [ok |-> TRUE, err |-> "", fs |-> WithoutEntries(f, Below(f, l.val) \cup {l.val})]

\* rename(2): neither last component is followed; a directory replaces only
\* an empty directory and never moves below itself; a file or link never
\* replaces a directory
rename(f, from, to) ==
    LET lf == Locate(f, from)
        lt == Locate(f, to)
    IN
    IF ~lf.ok THEN [ok |-> FALSE, err |-> lf.err, fs |-> f]
    ELSE IF ~lt.ok THEN [ok |-> FALSE, err |-> lt.err, fs |-> f]
    ELSE IF IsDotDotOrRoot(from) \/ IsDotDotOrRoot(to)
    THEN [ok |-> FALSE, err |-> "ResourceBusy", fs |-> f]
    ELSE IF lf.val \notin DOMAIN f THEN [ok |-> FALSE, err |-> "NotFound", fs |-> f]
    ELSE IF lf.val = lt.val THEN [ok |-> TRUE, err |-> "", fs |-> f]
    ELSE IF f[lf.val].kind = "dir"
    THEN IF starts_with(lt.val, lf.val)
         THEN [ok |-> FALSE, err |-> "InvalidInput", fs |-> f]
         ELSE IF lt.val \in DOMAIN f /\ f[lt.val].kind # "dir"
         THEN [ok |-> FALSE, err |-> "NotADirectory", fs |-> f]
         ELSE IF lt.val \in DOMAIN f /\ Below(f, lt.val) # {}
         THEN [ok |-> FALSE, err |-> "DirectoryNotEmpty", fs |-> f]
         ELSE LET moved == Below(f, lf.val) \cup {lf.val}
                  dest(x) == lt.val \o SubSeq(x, Len(lf.val) + 1, Len(x))
                  kept == DOMAIN f \ (moved \cup {lt.val})
              IN  [ok |-> TRUE, err |-> "",
                   fs |-> [x \in kept \cup {dest(y) : y \in moved} |->
                             IF x \in kept THEN f[x]
                             ELSE f[CHOOSE y \in moved : dest(y) = x]]]
    ELSE IF lt.val \in DOMAIN f /\ f[lt.val].kind = "dir"
    THEN [ok |-> FALSE, err |-> "IsADirectory", fs |-> f]
    ELSE [ok |-> TRUE, err |-> "",
          fs |-> WithEntry(WithoutEntries(f, {lf.val}), lt.val, f[lf.val])]

\* std::fs::copy: open the source, open the destination with create and
\* truncate, then copy what the source holds at that moment
copy_opened(src, dst) ==
    IF ~dst.res.ok THEN dst
    ELSE Out(Ok(Len(dst.inodes[src.ino])), dst.fs,
             WithData(dst.inodes, dst.res.val, dst.inodes[src.ino]))

copy_from(f, ino, src, to) ==
    IF ~src.ok THEN Out(src, f, ino)
    ELSE IF ~src.val.is_file THEN Out(Err("InvalidInput"), f, ino)
    ELSE copy_opened(src.val, OpenForWrite(f, ino, to, TRUE))

copy(f, ino, from, to) == copy_from(f, ino, OpenForRead(f, from), to)

----------------------------------------------------------------------------
(* FileWriter and FileReader: src/src/file_ops.rs *)

\* the error kinds the code gives an io::Error from an open call
OpenError(e) ==
    IF e = "NotFound" THEN Err("FileNotFound") ELSE Err("Io")

Utf8(bytes) == \A i \in 1..Len(bytes) : bytes[i] < 128

\* the outcome of an OS call that returns no value, its error as Io
IoOut(r, ino) == Out(IF r.ok THEN Ok(TRUE) ELSE Err("Io"), r.fs, ino)

NoDirs(f) == [ok |-> TRUE, err |-> "", fs |-> f]

\* write_string and write_bytes share their body.  Last steps: the open with
\* create and truncate, its error kinds, then write_all and sync_all
write_opened(file, content) ==
    IF ~file.res.ok THEN Out(OpenError(file.res.err), file.fs, file.inodes)
    ELSE Out(Ok(TRUE), file.fs, WithData(file.inodes, file.res.val, content))

\* ... after the parents are created when create_dirs is set
write_in_dirs(dirs, ino, validated_path, content) ==
    IF ~dirs.ok THEN Out(Err("Io"), dirs.fs, ino)
    ELSE write_opened(OpenForWrite(dirs.fs, ino, validated_path, TRUE), content)

\* the size of the content validated only once the parents are created
write_validated_dirs_first(pol, cd, f, ino, validated_path, content) ==
    IF ~validated_path.ok THEN Out(validated_path, f, ino)
    ELSE IF cd /\ parent(validated_path.val).some
            /\ ~validate_file_size(pol, Len(content)).ok
    THEN Out(validate_file_size(pol, Len(content)),
             create_dir_all(f, parent(validated_path.val).val).fs, ino)
    ELSE IF ~validate_file_size(pol, Len(content)).ok
    THEN Out(validate_file_size(pol, Len(content)), f, ino)
    ELSE write_in_dirs(IF cd /\ parent(validated_path.val).some
                       THEN create_dir_all(f, parent(validated_path.val).val)
                       ELSE NoDirs(f),
                       ino, validated_path.val, content)

\* ... after the size of the content is validated
write_validated(pol, cd, f, ino, validated_path, content) ==
    IF ~validated_path.ok THEN Out(validated_path, f, ino)
    ELSE IF ~validate_file_size(pol, Len(content)).ok
    THEN Out(validate_file_size(pol, Len(content)), f, ino)
    ELSE write_in_dirs(IF cd /\ parent(validated_path.val).some
                       THEN create_dir_all(f, parent(validated_path.val).val)
                       ELSE NoDirs(f),
                       ino, validated_path.val, content)

write_string(pol, cd, f, ino, path, content) ==
    write_validated(pol, cd, f, ino, validate_write(pol, f, path), content)

write_bytes(pol, cd, f, ino, path, content) ==
    write_validated(pol, cd, f, ino, validate_write(pol, f, path), content)

\* write_string in its steps, for callers that run at the same time.  The
\* steps before the open: validation, size, parents
write_prepared(pol, cd, f, validated_path, content) ==
    IF ~validated_path.ok THEN [res |-> validated_path, fs |-> f]
    ELSE IF ~validate_file_size(pol, Len(content)).ok
    THEN [res |-> validate_file_size(pol, Len(content)), fs |-> f]
    ELSE IF cd /\ parent(validated_path.val).some
            /\ ~create_dir_all(f, parent(validated_path.val).val).ok
    THEN [res |-> Err("Io"), fs |-> create_dir_all(f, parent(validated_path.val).val).fs]
    ELSE [res |-> validated_path,
          fs |-> IF cd /\ parent(validated_path.val).some
                 THEN create_dir_all(f, parent(validated_path.val).val).fs
                 ELSE f]

\* a faulty variant: the bytes are put at the end of the file
write_at_end(data, offset, content) == data \o content

\* write(2) through a handle opened without O_APPEND: the bytes replace
\* those at the handle's offset and the file grows if they reach past its end
write_at(data, offset, content) ==
    SubSeq(data, 1, offset) \o content
    \o SubSeq(data, offset + Len(content) + 1, Len(data))

\* a faulty variant: the appended content replaces what the file held
append_opened_truncating(file, content) ==
    IF ~file.res.ok THEN Out(Err("Io"), file.fs, file.inodes)
    ELSE Out(Ok(TRUE), file.fs, WithData(file.inodes, file.res.val, content))

\* append_string: validate the path, open with create and append, write
append_opened(file, content) ==
    IF ~file.res.ok THEN Out(Err("Io"), file.fs, file.inodes)
    ELSE Out(Ok(TRUE), file.fs,
             WithData(file.inodes, file.res.val, file.inodes[file.res.val] \o content))

append_validated(f, ino, validated_path, content) ==
    IF ~validated_path.ok THEN Out(validated_path, f, ino)
    ELSE append_opened(OpenForWrite(f, ino, validated_path.val, FALSE), content)

append_string(pol, f, ino, path, content) ==
    append_validated(f, ino, validate_write(pol, f, path), content)

delete_validated(f, ino, validated_path) ==
    IF ~validated_path.ok THEN Out(validated_path, f, ino)
    ELSE IF ~is_file(f, validated_path.val) THEN Out(Err("InvalidPath"), f, ino)
    ELSE IoOut(remove_file(f, validated_path.val), ino)

delete_file(pol, f, ino, path) ==
    delete_validated(f, ino, validate_write(pol, f, path))

move_validated(f, ino, validated_from, validated_to) ==
    IF ~validated_from.ok THEN Out(validated_from, f, ino)
    ELSE IF ~validated_to.ok THEN Out(validated_to, f, ino)
    ELSE IF ~exists(f, validated_from.val) THEN Out(Err("FileNotFound"), f, ino)
    ELSE IoOut(rename(f, validated_from.val, validated_to.val), ino)

\* the destination taken as given, only the source validated
move_file_source_only(pol, f, ino, from, to) ==
    move_validated(f, ino, validate_write(pol, f, from), Ok(to))

move_file(pol, f, ino, from, to) ==
    move_validated(f, ino, validate_write(pol, f, from), validate_write(pol, f, to))

copy_done(r) == IF r.res.ok THEN r ELSE Out(Err("Io"), r.fs, r.inodes)

copy_validated(f, ino, validated_from, validated_to) ==
    IF ~validated_from.ok THEN Out(validated_from, f, ino)
    ELSE IF ~validated_to.ok THEN Out(validated_to, f, ino)
    ELSE IF ~is_file(f, validated_from.val) THEN Out(Err("InvalidPath"), f, ino)
    ELSE copy_done(copy(f, ino, validated_from.val, validated_to.val))

copy_file(pol, f, ino, from, to) ==
    copy_validated(f, ino, validate_write(pol, f, from), validate_write(pol, f, to))

create_directory_validated(f, ino, validated_path, recursive) ==
    IF ~validated_path.ok THEN Out(validated_path, f, ino)
    ELSE IF exists(f, validated_path.val) THEN Out(Err("InvalidPath"), f, ino)
    ELSE IoOut(IF recursive THEN create_dir_all(f, validated_path.val)
               ELSE mkdir(f, validated_path.val), ino)

create_directory(pol, f, ino, path, recursive) ==
    create_directory_validated(f, ino, validate_write(pol, f, path), recursive)

remove_directory_validated(f, ino, validated_path, recursive) ==
    IF ~validated_path.ok THEN Out(validated_path, f, ino)
    ELSE IF ~is_dir(f, validated_path.val) THEN Out(Err("InvalidPath"), f, ino)
    ELSE IoOut(IF recursive THEN remove_dir_all(f, validated_path.val)
               ELSE remove_dir(f, validated_path.val), ino)

remove_directory(pol, f, ino, path, recursive) ==
    remove_directory_validated(f, ino, validate_write(pol, f, path), recursive)

\* The read protocol of read_to_string, read_to_bytes, read_lines and
\* grep_file, step by step: File::open on the validated path ...
open_error(file) == IF file.ok THEN file ELSE OpenError(file.err)

open_validated(f, validated_path) == open_error(OpenForRead(f, validated_path))

\* ... then file.metadata(), of the object the handle refers to (the length
\* of a directory is the filesystem's business: 0 here) ...
metadata(ino, file) ==
    [ino |-> file.ino,
     is_file |-> file.is_file,
     len |-> IF file.is_file THEN Len(ino[file.ino]) ELSE 0]

\* ... the size cap and then the regular-file test on that metadata
check_metadata(pol, md) ==
    IF ~validate_file_size(pol, md.len).ok THEN validate_file_size(pol, md.len)
    ELSE IF ~md.is_file THEN Err("InvalidPath")
    ELSE Ok(TRUE)

check_handle(pol, ino, file) == check_metadata(pol, metadata(ino, file))

\* ... then the content, read from the handle
read_handle_string(ino, file) ==
    IF Utf8(ino[file.ino]) THEN Ok(ino[file.ino]) ELSE Err("Io")

read_handle_bytes(ino, file) == Ok(ino[file.ino])

\* read_to_string with nothing else running between its steps
read_opened(pol, ino, file) ==
    IF ~file.ok THEN file
    ELSE IF ~check_handle(pol, ino, file.val).ok THEN check_handle(pol, ino, file.val)
    ELSE read_handle_string(ino, file.val)

read_validated(pol, f, ino, validated_path) ==
    IF ~validated_path.ok THEN validated_path
    ELSE read_opened(pol, ino, open_validated(f, validated_path.val))

read_to_string(pol, f, ino, path) ==
    read_validated(pol, f, ino, validate_read(pol, f, path))

\* BufRead::lines: the text between line feeds, a last line without one
\* included, no empty line after a final line feed
RECURSIVE lines_from(_, _)
lines_from(bytes, line) ==
    IF bytes = <<>> THEN (IF line = <<>> THEN <<>> ELSE <<line>>)
    ELSE IF Head(bytes) = 10 THEN <<line>> \o lines_from(Tail(bytes), <<>>)
    ELSE lines_from(Tail(bytes), Append(line, Head(bytes)))

lines(bytes) == lines_from(bytes, <<>>)

unwrap_or(o, default) == IF o.some THEN o.val ELSE default
saturating_sub(a, b) == IF a > b THEN a - b ELSE 0
min(a, b) == IF a < b THEN a ELSE b

\* s[a..b] of a Vec, 0-based, b excluded
Slice(s, a, b) == SubSeq(s, a + 1, b)

\* a slice whose start lies after its end panics
Panic == Err("panic")

range_lines(all_lines, start_idx, end_idx) ==
    IF start_idx >= Len(all_lines) THEN Ok(<<>>)
    ELSE IF start_idx > end_idx THEN Panic
    ELSE Ok(Slice(all_lines, start_idx, end_idx))

\* read_lines, once all lines are read: tail mode first, then the range
select_lines(all_lines, start_line, end_line, tail) ==
    IF tail.some
    THEN Ok(Slice(all_lines,
                  IF Len(all_lines) > tail.val THEN Len(all_lines) - tail.val ELSE 0,
                  Len(all_lines)))
    ELSE range_lines(all_lines,
                     saturating_sub(unwrap_or(start_line, 1), 1),
                     min(unwrap_or(end_line, Len(all_lines)), Len(all_lines)))

\* Regex::new and is_match for the patterns of the model: literal bytes find
\* themselves in a line, and an opening parenthesis is a pattern that does
\* not compile
regex_ok(pattern) == \A i \in 1..Len(pattern) : pattern[i] # 40

is_match(pattern, line) ==
    \E i \in 0..(Len(line) - Len(pattern)) :
        SubSeq(line, i + 1, i + Len(pattern)) = pattern

\* usize: the machine word, WordBits wide here
WordBits == 4
usize_MAX == 2^WordBits - 1

\* a + b on usize.  An overflow panics in a build with overflow checks (the
\* debug profile) and wraps in a build without them (the release profile)
usize_add(a, b, overflow_checks) ==
    IF a + b <= usize_MAX THEN Ok(a + b)
    ELSE IF overflow_checks THEN Panic
    ELSE Ok((a + b) % (usize_MAX + 1))

then_add(r, b, overflow_checks) ==
    IF r.ok THEN usize_add(r.val, b, overflow_checks) ELSE r

\* (line_num + context + 1).min(all_lines.len())
end_context(line_num, context, len, overflow_checks) ==
    IF then_add(usize_add(line_num, context, overflow_checks), 1, overflow_checks).ok
    THEN Ok(min(then_add(usize_add(line_num, context, overflow_checks), 1,
                         overflow_checks).val, len))
    ELSE Panic

GrepMatch(line_number, line_content, context_before, context_after) ==
    [line_number |-> line_number, line_content |-> line_content,
     context_before |-> context_before, context_after |-> context_after]

\* the match of line line_num, the end of its window given; the slice
\* all_lines[line_num + 1..end_context] panics when it starts after its end
grep_match(all_lines, line_num, context, end) ==
    IF ~end.ok THEN end
    ELSE IF line_num + 1 > end.val THEN Panic
    ELSE Ok(GrepMatch(line_num + 1,
                      all_lines[line_num + 1],
                      Slice(all_lines, saturating_sub(line_num, context), line_num),
                      Slice(all_lines, line_num + 1, end.val)))

\* the loop of grep_file over the lines
RECURSIVE grep_lines(_, _, _, _, _, _, _)
RECURSIVE grep_pushed(_, _, _, _, _, _, _, _)
grep_pushed(all_lines, pattern, max_matches, context, line_num, matches, match, overflow_checks) ==
    IF ~match.ok THEN match
    ELSE grep_lines(all_lines, pattern, max_matches, context, line_num + 1,
                    Append(matches, match.val), overflow_checks)

grep_lines(all_lines, pattern, max_matches, context, line_num, matches, overflow_checks) ==
    IF line_num >= Len(all_lines) THEN Ok(matches)
    ELSE IF ~is_match(pattern, all_lines[line_num + 1])
    THEN grep_lines(all_lines, pattern, max_matches, context, line_num + 1, matches,
                    overflow_checks)
    ELSE IF max_matches.some /\ Len(matches) >= max_matches.val THEN Ok(matches)
    ELSE grep_pushed(all_lines, pattern, max_matches, context, line_num, matches,
                     grep_match(all_lines, line_num, context,
                                end_context(line_num, context, Len(all_lines),
                                            overflow_checks)),
                     overflow_checks)

\* what each reading operation makes of the bytes its handle gives
read_lines_of(bytes, args) ==
    IF ~Utf8(bytes) THEN Err("Io")
    ELSE select_lines(lines(bytes), args.start_line, args.end_line, args.tail)

grep_file_of(bytes, args, overflow_checks) ==
    IF ~regex_ok(args.pattern) THEN Err("InvalidParameters")
    ELSE IF ~Utf8(bytes) THEN Err("Io")
    ELSE grep_lines(lines(bytes), args.pattern, args.max_matches,
                    unwrap_or(args.context_lines, 0), 0, <<>>, overflow_checks)

returned(op, args, bytes, overflow_checks) ==
    CASE op = "read_to_string" -> IF Utf8(bytes) THEN Ok(bytes) ELSE Err("Io")
      [] op = "read_to_bytes"  -> Ok(bytes)
      [] op = "read_lines"     -> read_lines_of(bytes, args)
      [] op = "grep_file"      -> grep_file_of(bytes, args, overflow_checks)

\* read_lines and grep_file with nothing else running between their steps
read_lines_opened(pol, ino, file, args) ==
    IF ~file.ok THEN file
    ELSE IF ~check_handle(pol, ino, file.val).ok THEN check_handle(pol, ino, file.val)
    ELSE read_lines_of(ino[file.val.ino], args)

read_lines_validated(pol, f, ino, validated_path, args) ==
    IF ~validated_path.ok THEN validated_path
    ELSE read_lines_opened(pol, ino, open_validated(f, validated_path.val), args)

read_lines(pol, f, ino, path, start_line, end_line, tail) ==
    read_lines_validated(pol, f, ino, validate_read(pol, f, path),
                         [start_line |-> start_line, end_line |-> end_line, tail |-> tail])

grep_file_opened(pol, ino, file, args, overflow_checks) ==
    IF ~file.ok THEN file
    ELSE IF ~check_handle(pol, ino, file.val).ok THEN check_handle(pol, ino, file.val)
    ELSE grep_file_of(ino[file.val.ino], args, overflow_checks)

grep_file_validated(pol, f, ino, validated_path, args, overflow_checks) ==
    IF ~validated_path.ok THEN validated_path
    ELSE grep_file_opened(pol, ino, open_validated(f, validated_path.val), args,
                          overflow_checks)

grep_file(pol, f, ino, path, pattern, max_matches, context_lines, overflow_checks) ==
    grep_file_validated(pol, f, ino, validate_read(pol, f, path),
                        [pattern |-> pattern, max_matches |-> max_matches,
                         context_lines |-> context_lines],
                        overflow_checks)

\* FileReader::exists: Path::exists of the path as given
FileReader_exists(f, path) == exists(f, path)

\* get_metadata: fs::metadata of the validated path, which resolves the path
\* anew and follows links; times and permissions are not modelled
FileMetadata(md) ==
    [size |-> md.len, is_file |-> md.is_file, is_dir |-> ~md.is_file,
     is_symlink |-> FALSE]

fs_metadata(f, ino, p) ==
    IF OpenForRead(f, p).ok
    THEN Ok(FileMetadata(metadata(ino, OpenForRead(f, p).val)))
    ELSE Err("Io")

get_metadata_validated(f, ino, validated_path) ==
    IF ~validated_path.ok THEN validated_path
    ELSE fs_metadata(f, ino, validated_path.val)

get_metadata(pol, f, ino, path) ==
    get_metadata_validated(f, ino, validate_read(pol, f, path))

\* list_directory.  What a directory holds (fs::read_dir, WalkDir) ...
children(f, dir) == {x \in DOMAIN f : Front(x) = dir}

\* ... a DirectoryEntry, from the type and length the metadata gives (the
\* length of a directory or of a link is the filesystem's business: 0 here)
DirectoryEntry(path, kind, len) ==
    [path |-> path, name |-> Last(path),
     is_file |-> kind = "file", is_dir |-> kind = "dir", size |-> len]

\* ... of an entry whose metadata is taken without following a link
entry_of(f, ino, path, slot) ==
    DirectoryEntry(path, f[slot].kind,
                   IF f[slot].kind = "file" THEN Len(ino[f[slot].ino]) ELSE 0)

\* not recursive: the entries of fs::read_dir, named below the listed path
read_dir(f, ino, dir) ==
    {entry_of(f, ino, Append(dir, Last(c)), c) : c \in children(f, dir)}

\* recursive: WalkDir below the listed directory.  With follow_links a link
\* is its target: a link that does not resolve, or that leads to a directory
\* the walk is inside of, is an error the loop drops; a link to a directory
\* is walked into under the link's name
RECURSIVE walk_dir(_, _, _, _, _, _)
RECURSIVE walk_entry(_, _, _, _, _, _)
RECURSIVE walk_followed(_, _, _, _, _, _)
walk_dir(f, ino, path, dir, ancestors, follow_links) ==
    UNION {walk_entry(f, ino, Append(path, Last(c)), c, ancestors, follow_links) :
             c \in children(f, dir)}

walk_entry(f, ino, path, slot, ancestors, follow_links) ==
    IF f[slot].kind = "dir"
    THEN {entry_of(f, ino, path, slot)}
         \cup walk_dir(f, ino, path, slot, ancestors \cup {slot}, follow_links)
    ELSE IF f[slot].kind = "file" \/ ~follow_links
    THEN {entry_of(f, ino, path, slot)}
    ELSE walk_followed(f, ino, path, canonicalize(f, slot), ancestors, follow_links)

walk_followed(f, ino, path, target, ancestors, follow_links) ==
    IF ~target.ok THEN {}
    ELSE IF ~IsDirAt(f, target.val) THEN {entry_of(f, ino, path, target.val)}
    ELSE IF target.val \in ancestors THEN {}
    ELSE {DirectoryEntry(path, "dir", 0)}
         \cup walk_dir(f, ino, path, target.val, ancestors \cup {target.val},
                       follow_links)

\* an entry that fails validation makes the whole listing fail
listed_or_error(pol, f, discovered) ==
    IF \E e \in discovered : ~validate_read(pol, f, e.path).ok
    THEN validate_read(pol, f,
                       (CHOOSE e \in discovered : ~validate_read(pol, f, e.path).ok).path)
    ELSE Ok(discovered)

\* every discovered entry is validated on its own: if self.validate_path(path).is_ok()
listed(pol, f, discovered) ==
    Ok({e \in discovered : validate_read(pol, f, e.path).ok})

list_directory_validated(pol, f, ino, validated_path, recursive) ==
    IF ~validated_path.ok THEN validated_path
    ELSE IF ~is_dir(f, validated_path.val) THEN Err("InvalidPath")
    ELSE listed(pol, f,
                IF recursive
                THEN walk_dir(f, ino, validated_path.val, validated_path.val,
                              {validated_path.val}, pol.allow_symlinks)
                ELSE read_dir(f, ino, validated_path.val))

list_directory(pol, f, ino, path, recursive) ==
    list_directory_validated(pol, f, ino, validate_read(pol, f, path), recursive)

----------------------------------------------------------------------------
(* The rate limiter (rate_limit.rs).  RateLimiter wraps the governor        *)
(* crate's direct limiter, which keeps one number, the theoretical arrival *)
(* time of the next cell (GCRA).  Time is counted in emission intervals:   *)
(* with Quota::per_second(q) one interval is 1/q second and the burst is q *)
(* cells.                                                                  *)

\* the quota RateLimiter::new falls back to when given 0
DefaultQuota == 10

NonZeroU32_new(n) == IF n = 0 THEN None ELSE Some(n)

\* Quota::per_second: q cells per second, bursts of q
Quota_per_second(q) == [max_burst |-> q, replenish_1_per |-> 1]

\* RateLimiter::new
RateLimiter_new(requests_per_second) ==
    [quota |-> Quota_per_second(unwrap_or(NonZeroU32_new(requests_per_second),
                                          DefaultQuota)),
     tat |-> None]

\* the limiter's decision at time t0: a cell conforms unless it comes before
\* tat - tau, where tat starts one interval after the first cell and tau is
\* the burst times the interval
Gcra_tau(limiter) == limiter.quota.replenish_1_per * limiter.quota.max_burst

Gcra_tat(limiter, t0) == unwrap_or(limiter.tat, t0 + limiter.quota.replenish_1_per)

conforms(limiter, t0) == t0 >= saturating_sub(Gcra_tat(limiter, t0), Gcra_tau(limiter))

\* RateLimiter::check: the answer and the limiter after it; a cell that is
\* refused leaves the limiter as it was
check(limiter, t0) ==
    IF conforms(limiter, t0)
    THEN [ok |-> TRUE,
          limiter |-> [limiter EXCEPT !.tat =
                          Some((IF Gcra_tat(limiter, t0) > t0 THEN Gcra_tat(limiter, t0) ELSE t0)
                               + limiter.quota.replenish_1_per)]]
    ELSE [ok |-> FALSE, limiter |-> limiter]

(* The JSON-RPC server (protocol.rs, mcp.rs).  A request string is either  *)
(* text serde_json cannot parse as a JsonRpcRequest or the JSON of one; a  *)
(* JSON object is a function of its keys; the text sent back is a sequence *)
(* of zero or one response.                                                *)

Unparsable == [valid |-> FALSE]
Json(request) == [valid |-> TRUE, request |-> request]

from_str(request_str) ==
    IF request_str.valid THEN Ok(request_str.request) ELSE Err("syntax")

JsonRpcRequest(method, params, id) == [method |-> method, params |-> params, id |-> id]

JsonRpcResponse_success(id, result) ==
    [jsonrpc |-> "2.0", result |-> Some(result), error |-> None, id |-> id]

JsonRpcResponse_error(id, code, message) ==
    [jsonrpc |-> "2.0", result |-> None,
     error |-> Some([code |-> code, message |-> message]), id |-> id]

to_string(response) == <<response>>
String_new == <<>>

EmptyObject == <<>>
get(object, key) == IF key \in DOMAIN object THEN Some(object[key]) ELSE None

\* handle_tool_call, for the tools read_file and write_file and for a name
\* that is no tool
read_file_result(r, f, ino) ==
    Out(IF r.ok THEN Ok([text |-> r.val]) ELSE r, f, ino)

write_file_result(out, params) ==
    Out(IF out.res.ok THEN Ok([wrote |-> Len(params.content), path |-> params.path])
        ELSE out.res,
        out.fs, out.inodes)

\* the result of a tool whose operation changes the disk: a text naming
\* what was done
done_result(out, text) ==
    Out(IF out.res.ok THEN Ok([text |-> text]) ELSE out.res, out.fs, out.inodes)

\* serde_json::from_value into a params struct: fields may be added, none
\* of the struct's own may be missing (recursive has a default)
from_value(arguments, fields) ==
    IF fields \subseteq DOMAIN arguments THEN Ok(arguments) ELSE Err("InvalidParameters")

invalid_parameters(f, ino) == Out(Err("InvalidParameters"), f, ino)

\* the tools list_tools advertises, in its order
list_tools ==
    <<"read_file", "write_file", "list_directory", "get_metadata",
      "delete_file", "move_file", "copy_file">>

\* a faulty variant: copy_file is advertised and not dispatched
handle_tool_call_without_copy(pol, cd, f, ino, name, arguments) ==
    CASE name = "read_file" ->
           IF ~from_value(arguments, {"path"}).ok THEN invalid_parameters(f, ino) ELSE
           read_file_result(read_to_string(pol, f, ino, arguments.path), f, ino)
      [] name = "write_file" ->
           IF ~from_value(arguments, {"path", "content"}).ok THEN invalid_parameters(f, ino) ELSE
           write_file_result(
               write_string(pol, cd, f, ino, arguments.path, arguments.content),
               arguments)
      [] name = "list_directory" ->
           IF ~from_value(arguments, {"path"}).ok THEN invalid_parameters(f, ino) ELSE
           read_file_result(
               list_directory(pol, f, ino, arguments.path,
                              unwrap_or(get(arguments, "recursive"), FALSE)),
               f, ino)
      [] name = "get_metadata" ->
           IF ~from_value(arguments, {"path"}).ok THEN invalid_parameters(f, ino) ELSE
           read_file_result(get_metadata(pol, f, ino, arguments.path), f, ino)
      [] name = "delete_file" ->
           IF ~from_value(arguments, {"path"}).ok THEN invalid_parameters(f, ino) ELSE
           done_result(delete_file(pol, f, ino, arguments.path),
                       <<"deleted", arguments.path>>)
      [] name = "move_file" ->
           IF ~from_value(arguments, {"from", "to"}).ok THEN invalid_parameters(f, ino) ELSE
           done_result(move_file(pol, f, ino, arguments.from, arguments.to),
                       <<"moved", arguments.from, arguments.to>>)
      [] OTHER -> Out(Err("ToolNotFound"), f, ino)

\* handle_tool_call: the match on the tool's name; each arm parses its
\* parameters, calls its operation and words the result
handle_tool_call(pol, cd, f, ino, name, arguments) ==
    CASE name = "read_file" ->
           IF ~from_value(arguments, {"path"}).ok THEN invalid_parameters(f, ino) ELSE
           read_file_result(read_to_string(pol, f, ino, arguments.path), f, ino)
      [] name = "write_file" ->
           IF ~from_value(arguments, {"path", "content"}).ok THEN invalid_parameters(f, ino) ELSE
           write_file_result(
               write_string(pol, cd, f, ino, arguments.path, arguments.content),
               arguments)
      [] name = "list_directory" ->
           IF ~from_value(arguments, {"path"}).ok THEN invalid_parameters(f, ino) ELSE
           read_file_result(
               list_directory(pol, f, ino, arguments.path,
                              unwrap_or(get(arguments, "recursive"), FALSE)),
               f, ino)
      [] name = "get_metadata" ->
           IF ~from_value(arguments, {"path"}).ok THEN invalid_parameters(f, ino) ELSE
           read_file_result(get_metadata(pol, f, ino, arguments.path), f, ino)
      [] name = "delete_file" ->
           IF ~from_value(arguments, {"path"}).ok THEN invalid_parameters(f, ino) ELSE
           done_result(delete_file(pol, f, ino, arguments.path),
                       <<"deleted", arguments.path>>)
      [] name = "move_file" ->
           IF ~from_value(arguments, {"from", "to"}).ok THEN invalid_parameters(f, ino) ELSE
           done_result(move_file(pol, f, ino, arguments.from, arguments.to),
                       <<"moved", arguments.from, arguments.to>>)
      [] name = "copy_file" ->
           IF ~from_value(arguments, {"from", "to"}).ok THEN invalid_parameters(f, ino) ELSE
           done_result(copy_file(pol, f, ino, arguments.from, arguments.to),
                       <<"copied", arguments.from, arguments.to>>)
      [] OTHER -> Out(Err("ToolNotFound"), f, ino)

tool_call_response(id, out) ==
    Out(IF out.res.ok THEN JsonRpcResponse_success(id, out.res.val)
        ELSE JsonRpcResponse_error(id, -32000, out.res.err),
        out.fs, out.inodes)

tools_call(pol, cd, f, ino, id, params) ==
    tool_call_response(id,
        handle_tool_call(pol, cd, f, ino,
                         unwrap_or(get(params, "name"), ""),
                         unwrap_or(get(params, "arguments"), EmptyObject)))

\* handle_request: the response and the disk after it
handle_request(pol, cd, f, ino, request) ==
    CASE request.method = "tools/list" ->
           Out(JsonRpcResponse_success(request.id, [tools |-> list_tools]), f, ino)
      [] request.method = "tools/call" ->
           tools_call(pol, cd, f, ino, request.id, unwrap_or(request.params, EmptyObject))
      [] request.method = "initialize" ->
           Out(JsonRpcResponse_success(request.id, "serverInfo"), f, ino)
      [] OTHER ->
           Out(JsonRpcResponse_error(request.id, -32601, "Method not found"), f, ino)

RateLimitExceeded ==
    JsonRpcResponse_error(None, -32000, "Rate limit exceeded. Please slow down requests.")

ParseError == JsonRpcResponse_error(None, -32700, "Parse error")

\* a notification is handled and answered with the empty string
respond(request, out) ==
    [text |-> IF request.id.some THEN to_string(out.res) ELSE String_new,
     fs |-> out.fs, inodes |-> out.inodes]

parsed(pol, cd, f, ino, request) ==
    IF request.ok
    THEN respond(request.val, handle_request(pol, cd, f, ino, request.val))
    ELSE [text |-> to_string(ParseError), fs |-> f, inodes |-> ino]

\* a faulty variant: the request is parsed before the limiter's answer is
\* looked at, so that a parse error is reported to a refused request
process_request_parse_first(limit, pol, cd, f, ino, request_str) ==
    IF limit.ok \/ ~from_str(request_str).ok
    THEN [limiter |-> limit.limiter, admitted |-> limit.ok]
         @@ parsed(pol, cd, f, ino, from_str(request_str))
    ELSE [limiter |-> limit.limiter, admitted |-> FALSE,
          text |-> to_string(RateLimitExceeded), fs |-> f, inodes |-> ino]

\* process_request, given the limiter's answer: the text returned, the
\* limiter and the disk after it
process_request_checked(limit, pol, cd, f, ino, request_str) ==
    IF ~limit.ok
    THEN [limiter |-> limit.limiter, admitted |-> FALSE,
          text |-> to_string(RateLimitExceeded), fs |-> f, inodes |-> ino]
    ELSE [limiter |-> limit.limiter, admitted |-> TRUE]
         @@ parsed(pol, cd, f, ino, from_str(request_str))

process_request(limiter, t0, pol, cd, f, ino, request_str) ==
    process_request_checked(check(limiter, t0), pol, cd, f, ino, request_str)

(* The disk, the policies and the requests of the model *)

WS == <<"ws">>
OUT == <<"out">>
SEC == <<"ws", "sec">>
ND == <<"ws", "nd">>

\* /ws is the workspace, /out lies outside it; /ws/sec exists, /ws/nd and
\* /ws/new do not; li, lh and .lh are links that stay inside /ws, lo leaves
\* it and ld dangles to a missing file outside
Disk ==
    [x \in {WS, OUT, SEC,
            <<"ws", "a.txt">>, <<"ws", "b.EXE">>, <<"ws", ".env">>, <<"ws", "noext">>,
            <<"ws", "sec", "s.txt">>, <<"out", "s.txt">>,
            <<"ws", "li.txt">>, <<"ws", "lo.txt">>, <<"ws", "lh.txt">>,
            <<"ws", ".lh">>, <<"ws", "ld.txt">>} |->
        CASE x = <<"ws", "a.txt">>        -> FileEntry(1)
          [] x = <<"ws", "b.EXE">>        -> FileEntry(2)
          [] x = <<"ws", ".env">>         -> FileEntry(3)
          [] x = <<"ws", "noext">>        -> FileEntry(4)
          [] x = <<"ws", "sec", "s.txt">> -> FileEntry(5)
          [] x = <<"out", "s.txt">>       -> FileEntry(6)
          [] x = <<"ws", "li.txt">>       -> Link(<<"ws", "a.txt">>)
          [] x = <<"ws", "lo.txt">>       -> Link(<<"out", "s.txt">>)
          [] x = <<"ws", "lh.txt">>       -> Link(<<"ws", ".env">>)
          [] x = <<"ws", ".lh">>          -> Link(<<"ws", "a.txt">>)
          [] x = <<"ws", "ld.txt">>       -> Link(<<"out", "n.txt">>)
          [] OTHER                        -> Dir]

DiskData ==
    [i \in {1, 2, 3, 4, 5, 6} |->
        CASE i = 1 -> <<97>>
          [] i = 5 -> <<115>>
          [] i = 6 -> <<115, 115>>
          [] OTHER -> <<>>]

TXT == <<"t", "x", "t">>
TXTUpper == <<"T", "X", "T">>
EXE == <<"e", "x", "e">>

Policies ==
    [allowed_paths : {{}, {WS}},
     denied_paths : {{}, {SEC, ND}},
     allowed_extensions : {{}, {TXTUpper}, {TXT, EXE}},
     denied_extensions : {{}, {EXE}},
     max_file_size : {0, 1},
     allow_symlinks : BOOLEAN,
     allow_hidden_files : BOOLEAN,
     read_only : BOOLEAN]

Idle == [pc |-> "idle"]

\* the paths requests name: a directory form followed by a name
DirForms ==
    {WS, OUT, SEC, ND,
     <<"ws", "new">>, <<"ws", "a.txt">>,
     <<"ws", DD, "out">>, <<"ws", "sec", DD>>, <<"ws", "sec", DD, DD, "out">>,
     <<"ws", "new", DD, DD, "out">>, <<"ws", "new", DD, "sec">>}

RequestPaths ==
    {<<>>} \cup DirForms \cup {Append(d, n) : d \in DirForms, n \in Names \cup {DD}}

Done(op, path, to, content, res) ==
    [op |-> op, path |-> path, to |-> to, content |-> content, res |-> res]

\* McpServer::new: the moderate limiter, 100 requests per second; no request
\* made
NoRequests ==
    /\ rate_limiter = RateLimiter_new(100)
    /\ clock = 0
    /\ admitted = 0

----------------------------------------------------------------------------
(* Validation alone: one validation of every request path under every     *)
(* policy, on the disk                                                     *)

InitValidate ==
    /\ policy \in Policies
    /\ create_dirs = TRUE
    /\ fs = Disk
    /\ inodes = DiskData
    /\ call = Idle
    /\ last = Done("none", <<>>, <<>>, <<>>, Ok(TRUE))
    /\ calls = 0
    /\ changes = 0
    /\ NoRequests

ValidateRead(path) ==
    /\ last.op = "none"
    /\ last' = Done("validate_read", path, <<>>, <<>>, validate_read(policy, fs, path))
    /\ calls' = calls + 1
    /\ UNCHANGED <<server, policy, create_dirs, fs, inodes, call, changes>>

ValidateWrite(path) ==
    /\ last.op = "none"
    /\ last' = Done("validate_write", path, <<>>, <<>>, validate_write(policy, fs, path))
    /\ calls' = calls + 1
    /\ UNCHANGED <<server, policy, create_dirs, fs, inodes, call, changes>>

ReadFile(path) ==
    /\ last.op = "none"
    /\ last' = Done("read_to_string", path, <<>>, <<>>,
                    read_to_string(policy, fs, inodes, path))
    /\ calls' = calls + 1
    /\ UNCHANGED <<server, policy, create_dirs, fs, inodes, call, changes>>

Exists(path) ==
    /\ last.op = "none"
    /\ last' = Done("exists", path, <<>>, <<>>, Ok(FileReader_exists(fs, path)))
    /\ calls' = calls + 1
    /\ UNCHANGED <<server, policy, create_dirs, fs, inodes, call, changes>>

NextValidate ==
    \/ \E path \in RequestPaths : ValidateRead(path)
    \/ \E path \in RequestPaths : ValidateWrite(path)
    \/ \E path \in RequestPaths : ReadFile(path)
    \/ \E path \in RequestPaths : Exists(path)

SpecValidate == InitValidate /\ [][NextValidate]_vars

----------------------------------------------------------------------------
(* Directory listings: one list_directory of a directory form under every *)
(* policy, on the disk with one more link, from /out to the directory     *)
(* /ws/sec                                                                 *)

ListDisk == WithEntry(Disk, <<"out", "sec">>, Link(SEC))

ListPaths == {<<>>, <<"out", "sec">>} \cup DirForms

InitList ==
    /\ policy \in Policies
    /\ create_dirs = TRUE
    /\ fs = ListDisk
    /\ inodes = DiskData
    /\ call = Idle
    /\ last = Done("none", <<>>, <<>>, <<>>, Ok(TRUE))
    /\ calls = 0
    /\ changes = 0
    /\ NoRequests

ListDirectory(path, recursive) ==
    /\ last.op = "none"
    /\ last' = Done("list_directory", path, <<>>, recursive,
                    list_directory(policy, fs, inodes, path, recursive))
    /\ calls' = calls + 1
    /\ UNCHANGED <<server, policy, create_dirs, fs, inodes, call, changes>>

NextList == \E path \in ListPaths, recursive \in BOOLEAN : ListDirectory(path, recursive)

SpecList == InitList /\ [][NextList]_vars

----------------------------------------------------------------------------
(* The file operations, one call after the other *)

OpPolicies ==
    {pol \in Policies :
        /\ pol.allowed_paths = {WS}
        /\ pol.allowed_extensions = {}
        /\ pol.denied_extensions = {EXE}
        /\ ~pol.allow_hidden_files}

\* existing and new files, a ".." path over a missing directory, a path
\* below the missing denied root, links, a file outside, a denied file
FilePaths ==
    {<<"ws", "a.txt">>, <<"ws", "n.txt">>,
     <<"ws", "new", DD, DD, "out", "n.txt">>,
     <<"ws", "nd", "n.txt">>,
     <<"ws", "li.txt">>, <<"ws", "ld.txt">>,
     <<"out", "s.txt">>, <<"ws", "sec", "s.txt">>}

DirPaths == {ND, SEC, <<"ws", "new">>, <<"ws", "new", DD, "sec", "nd">>}

FromPaths == {<<"ws", "a.txt">>, <<"ws", "n.txt">>, <<"out", "s.txt">>, <<"ws", "li.txt">>}

ToPaths ==
    {<<"ws", "n.txt">>, <<"ws", "nd", "n.txt">>, <<"out", "n.txt">>, <<"ws", "ld.txt">>,
     <<"ws", "new", DD, DD, "out", "n.txt">>}

Strings == {<<97>>, <<97, 98>>}
Bytes == {<<97>>, <<255, 98>>}

Init ==
    /\ policy \in OpPolicies
    /\ create_dirs \in BOOLEAN
    /\ fs = Disk
    /\ inodes = DiskData
    /\ call = Idle
    /\ last = Done("none", <<>>, <<>>, <<>>, Ok(TRUE))
    /\ calls = 0
    /\ changes = 0
    /\ NoRequests

\* a call that runs to completion: its result, and the disk it leaves
Complete(op, path, to, content, out) ==
    /\ calls < MaxCalls
    /\ calls' = calls + 1
    /\ fs' = out.fs
    /\ inodes' = Release(out.fs, out.inodes, {})
    /\ last' = Done(op, path, to, content, out.res)
    /\ UNCHANGED <<server, policy, create_dirs, call, changes>>

WriteString(path, content) ==
    Complete("write_string", path, <<>>, content,
             write_string(policy, create_dirs, fs, inodes, path, content))

WriteBytes(path, content) ==
    Complete("write_bytes", path, <<>>, content,
             write_bytes(policy, create_dirs, fs, inodes, path, content))

AppendString(path, content) ==
    Complete("append_string", path, <<>>, content,
             append_string(policy, fs, inodes, path, content))

DeleteFile(path) ==
    Complete("delete_file", path, <<>>, <<>>, delete_file(policy, fs, inodes, path))

MoveFile(from, to) ==
    Complete("move_file", from, to, <<>>, move_file(policy, fs, inodes, from, to))

CopyFile(from, to) ==
    Complete("copy_file", from, to, <<>>, copy_file(policy, fs, inodes, from, to))

CreateDirectory(path, recursive) ==
    Complete(IF recursive THEN "create_directory_all" ELSE "create_directory",
             path, <<>>, <<>>, create_directory(policy, fs, inodes, path, recursive))

RemoveDirectory(path, recursive) ==
    Complete(IF recursive THEN "remove_directory_all" ELSE "remove_directory",
             path, <<>>, <<>>, remove_directory(policy, fs, inodes, path, recursive))

ReadToString(path) ==
    Complete("read_to_string", path, <<>>, <<>>,
             Out(read_to_string(policy, fs, inodes, path), fs, inodes))

Next ==
    \/ \E path \in FilePaths, content \in Strings : WriteString(path, content)
    \/ \E path \in FilePaths, content \in Bytes : WriteBytes(path, content)
    \/ \E path \in FilePaths, content \in Strings : AppendString(path, content)
    \/ \E path \in FilePaths : DeleteFile(path)
    \/ \E from \in FromPaths, to \in ToPaths : MoveFile(from, to)
    \/ \E from \in FromPaths, to \in ToPaths : CopyFile(from, to)
    \/ \E path \in DirPaths, recursive \in BOOLEAN : CreateDirectory(path, recursive)
    \/ \E path \in DirPaths, recursive \in BOOLEAN : RemoveDirectory(path, recursive)
    \/ \E path \in FilePaths : ReadToString(path)

Spec == Init /\ [][Next]_vars

----------------------------------------------------------------------------
(* The reading operations step by step, with another actor changing the   *)
(* disk between the steps of a call                                        *)

ReadOps == {"read_to_string", "read_to_bytes", "read_lines", "grep_file"}

RacePolicies ==
    {pol \in OpPolicies : ~pol.allow_symlinks /\ ~pol.read_only}

ReadPaths == {<<"ws", "a.txt">>, <<"ws", "sec", "s.txt">>, <<"ws", "n.txt">>}

NoArgs == <<>>

ReadLinesArgs ==
    [start_line : {None, Some(2)}, end_line : {None, Some(0)}, tail : {None, Some(1)}]

GrepArgs ==
    [pattern : {<<98>>, <<40>>}, max_matches : {None, Some(1)},
     context_lines : {None, Some(1)}]

ArgsOf(op) ==
    CASE op = "read_lines" -> ReadLinesArgs
      [] op = "grep_file"  -> GrepArgs
      [] OTHER             -> {NoArgs}

\* what the other actor puts in place of an entry, and what it writes
SwapSlots == {<<"ws", "a.txt">>, SEC}
LinkTargets == {<<"out", "s.txt">>, OUT, <<"ws", "sec", "s.txt">>}
OverwriteSlots == {<<"ws", "a.txt">>, <<"out", "s.txt">>}
OtherBytes == {<<98, 10, 99>>, <<255>>}

InitRace ==
    /\ policy \in RacePolicies
    /\ create_dirs = TRUE
    /\ fs = Disk
    /\ inodes = DiskData
    /\ call = Idle
    /\ last = Done("none", <<>>, <<>>, <<>>, Ok(TRUE))
    /\ calls = 0
    /\ changes = 0
    /\ NoRequests

\* the inode an open handle keeps alive
Held(c) ==
    IF c.pc \in {"opened", "checked"} /\ c.file.is_file THEN {c.file.ino} ELSE {}

\* the call returns: its handle, if any, is dropped
Return(c, validated_path, res) ==
    /\ call' = Idle
    /\ last' = Done(c.op, c.path, validated_path, c.args, res)

\* let validated_path = self.validate_path(path)?
Validated(c, validated_path) ==
    IF ~validated_path.ok THEN Return(c, <<>>, validated_path)
    ELSE /\ call' = [pc |-> "validated", op |-> c.op, path |-> c.path, args |-> c.args,
                     validated_path |-> validated_path.val]
         /\ UNCHANGED last

BeginRead(op, path, args) ==
    /\ call.pc = "idle"
    /\ calls < MaxReads
    /\ calls' = calls + 1
    /\ Validated([op |-> op, path |-> path, args |-> args],
                 validate_read(policy, fs, path))
    /\ UNCHANGED <<server, policy, create_dirs, fs, inodes, changes>>

\* let file = File::open(&validated_path).map_err(..)?
Opened(c, file) ==
    IF ~file.ok THEN Return(c, c.validated_path, file)
    ELSE /\ call' = [pc |-> "opened", op |-> c.op, path |-> c.path, args |-> c.args,
                     validated_path |-> c.validated_path, file |-> file.val]
         /\ UNCHANGED last

OpenFile ==
    /\ call.pc = "validated"
    /\ Opened(call, open_validated(fs, call.validated_path))
    /\ UNCHANGED <<server, policy, create_dirs, fs, inodes, calls, changes>>

\* what a stat of the validated path would give instead of the handle's own
\* metadata
path_metadata(f, ino, c) ==
    IF OpenForRead(f, c.validated_path).ok
    THEN Ok(metadata(ino, OpenForRead(f, c.validated_path).val))
    ELSE Err("Io")

\* let metadata = file.metadata()?
file_metadata(f, ino, c) == Ok(metadata(ino, c.file))

\* self.policy.validate_file_size(metadata.len())?; if !metadata.is_file() ..
Checked(c, md) ==
    IF ~md.ok THEN Return(c, c.validated_path, md)
    ELSE IF ~check_metadata(policy, md.val).ok
    THEN Return(c, c.validated_path, check_metadata(policy, md.val))
    ELSE /\ call' = [pc |-> "checked", op |-> c.op, path |-> c.path, args |-> c.args,
                     validated_path |-> c.validated_path, file |-> c.file,
                     metadata |-> md.val]
         /\ UNCHANGED last

CheckMetadata ==
    /\ call.pc = "opened"
    /\ Checked(call, file_metadata(fs, inodes, call))
    /\ inodes' = Release(fs, inodes, Held(call'))
    /\ UNCHANGED <<server, policy, create_dirs, fs, calls, changes>>

\* file.read_to_string / read_to_end / BufReader::new(file).lines()
read_content(ino, c, overflow_checks) ==
    returned(c.op, c.args, ino[c.file.ino], overflow_checks)

ReadContent ==
    /\ call.pc = "checked"
    /\ \E overflow_checks \in BOOLEAN :
          Return(call, call.validated_path, read_content(inodes, call, overflow_checks))
    /\ inodes' = Release(fs, inodes, {})
    /\ UNCHANGED <<server, policy, create_dirs, fs, calls, changes>>

\* get_metadata in its two steps: the validation, then fs::metadata
MetadataValidated(c, validated_path) ==
    IF ~validated_path.ok THEN Return(c, <<>>, validated_path)
    ELSE /\ call' = [pc |-> "stat", op |-> c.op, path |-> c.path, args |-> c.args,
                     validated_path |-> validated_path.val]
         /\ UNCHANGED last

BeginMetadata(path) ==
    /\ call.pc = "idle"
    /\ calls < MaxReads
    /\ calls' = calls + 1
    /\ MetadataValidated([op |-> "get_metadata", path |-> path, args |-> NoArgs],
                         validate_read(policy, fs, path))
    /\ UNCHANGED <<server, policy, create_dirs, fs, inodes, changes>>

PathMetadata ==
    /\ call.pc = "stat"
    /\ Return(call, call.validated_path,
              get_metadata_validated(fs, inodes, Ok(call.validated_path)))
    /\ UNCHANGED <<server, policy, create_dirs, fs, inodes, calls, changes>>

\* The other actor, between the steps of a call: it renames a symbolic link
\* over an entry (a directory goes with all it holds) ...
OtherChange(f, ino) ==
    /\ changes < MaxChanges
    /\ changes' = changes + 1
    /\ fs' = f
    /\ inodes' = Release(f, ino, Held(call))
    /\ UNCHANGED <<server, policy, create_dirs, call, last, calls>>

SwapLink(slot, target) ==
    /\ call.pc # "idle"
    /\ slot \in DOMAIN fs
    /\ OtherChange(WithEntry(WithoutEntries(fs, Below(fs, slot)), slot, Link(target)),
                   inodes)

\* ... writes into a file in place ...
Overwrite(slot, bytes) ==
    /\ call.pc # "idle"
    /\ slot \in DOMAIN fs
    /\ fs[slot].kind = "file"
    /\ OtherChange(fs, WithData(inodes, fs[slot].ino, bytes))

\* ... or renames a new file over an entry
ReplaceFile(slot, bytes) ==
    /\ call.pc # "idle"
    /\ slot \in DOMAIN fs
    /\ OtherChange(WithEntry(WithoutEntries(fs, Below(fs, slot)), slot,
                             FileEntry(FreshIno(inodes))),
                   WithData(inodes, FreshIno(inodes), bytes))

NextRace ==
    \/ \E op \in ReadOps, path \in ReadPaths :
           \E args \in ArgsOf(op) : BeginRead(op, path, args)
    \/ OpenFile
    \/ CheckMetadata
    \/ ReadContent
    \/ \E path \in ReadPaths : BeginMetadata(path)
    \/ PathMetadata
    \/ \E slot \in SwapSlots, target \in LinkTargets : SwapLink(slot, target)
    \/ \E slot \in OverwriteSlots, bytes \in OtherBytes : Overwrite(slot, bytes)
    \/ \E slot \in SwapSlots, bytes \in OtherBytes : ReplaceFile(slot, bytes)

SpecRace == InitRace /\ [][NextRace]_vars

----------------------------------------------------------------------------
(* The server: requests in a row to process_request, time passing between *)
(* them                                                                    *)

MaxRequests == 11
MaxTicks == 2

ServerPolicies ==
    {pol \in OpPolicies : pol.denied_paths = {} /\ pol.max_file_size = 0 /\ ~pol.allow_symlinks}

RequestsPerSecond == {0, 1, 2}

ToolCall(name, arguments, id) ==
    Json(JsonRpcRequest("tools/call", Some([name |-> name, arguments |-> arguments]), id))

RequestStrings ==
    {Unparsable,
     Json(JsonRpcRequest("tools/list", None, Some(1))),
     Json(JsonRpcRequest("resources/list", None, Some(1))),
     ToolCall("read_file", [path |-> <<"ws", "a.txt">>], Some(1)),
     ToolCall("read_file", [path |-> <<"out", "s.txt">>], Some(1)),
     ToolCall("write_file", [path |-> <<"ws", "n.txt">>, content |-> <<97>>], Some(1)),
     ToolCall("write_file", [path |-> <<"ws", "a.txt">>, content |-> <<>>], None),
     ToolCall("delete_everything", EmptyObject, Some(1))}

\* McpServer::with_rate_limiter(policy, RateLimiter::new(n))
InitServer ==
    /\ policy \in ServerPolicies
    /\ create_dirs = TRUE
    /\ fs = Disk
    /\ inodes = DiskData
    /\ call = Idle
    /\ last = Done("none", <<>>, <<>>, <<>>, Ok(TRUE))
    /\ calls = 0
    /\ changes = 0
    /\ \E n \in RequestsPerSecond : rate_limiter = RateLimiter_new(n)
    /\ clock = 0
    /\ admitted = 0

Processed(request_str, r) ==
    /\ rate_limiter' = r.limiter
    /\ admitted' = IF r.admitted THEN admitted + 1 ELSE admitted
    /\ fs' = r.fs
    /\ inodes' = Release(r.fs, r.inodes, {})
    /\ last' = [op |-> "process_request", request_str |-> request_str, res |-> r.text]

ProcessRequest(request_str) ==
    /\ calls < MaxRequests
    /\ calls' = calls + 1
    /\ Processed(request_str,
                 process_request(rate_limiter, clock, policy, create_dirs, fs, inodes,
                                 request_str))
    /\ UNCHANGED <<policy, create_dirs, call, changes, clock>>

\* one emission interval passes
Tick ==
    /\ clock < MaxTicks
    /\ clock' = clock + 1
    /\ UNCHANGED <<policy, create_dirs, fs, inodes, call, last, calls, changes,
                   rate_limiter, admitted>>

NextServer ==
    \/ \E request_str \in RequestStrings : ProcessRequest(request_str)
    \/ Tick

SpecServer == InitServer /\ [][NextServer]_vars

----------------------------------------------------------------------------
(* The tools: one tools/list or one handle_tool_call per run, of every     *)
(* name of the interface with every shape of arguments                     *)

\* the names called: those of the interface, the empty name, one more
CalledNames ==
    {"read_file", "write_file", "append_file", "delete_file", "move_file",
     "copy_file", "get_metadata", "file_exists", "list_directory",
     "create_directory", "remove_directory", "read_lines", "search_files",
     "grep_file", "", "delete_everything"}

CalledArguments ==
    {EmptyObject,
     [path |-> <<"ws", "a.txt">>],
     [path |-> <<"ws", "n.txt">>, content |-> <<97>>],
     [path |-> WS, recursive |-> TRUE],
     [from |-> <<"ws", "a.txt">>, to |-> <<"ws", "n.txt">>],
     [path |-> <<"ws", "a.txt">>, pattern |-> "a", start_line |-> 1]}

InitTools ==
    /\ policy \in ServerPolicies
    /\ create_dirs = TRUE
    /\ fs = Disk
    /\ inodes = DiskData
    /\ call = Idle
    /\ last = Done("none", <<>>, <<>>, <<>>, Ok(TRUE))
    /\ calls = 0
    /\ changes = 0
    /\ NoRequests

Called(name, arguments, out) ==
    /\ fs' = out.fs
    /\ inodes' = Release(out.fs, out.inodes, {})
    /\ last' = [op |-> "handle_tool_call", name |-> name, arguments |-> arguments,
                res |-> out.res]

HandleToolCall(name, arguments) ==
    /\ last.op = "none"
    /\ calls' = calls + 1
    /\ Called(name, arguments,
              handle_tool_call(policy, create_dirs, fs, inodes, name, arguments))
    /\ UNCHANGED <<server, policy, create_dirs, call, changes>>

ToolsList ==
    /\ last.op = "none"
    /\ calls' = calls + 1
    /\ last' = [op |-> "tools/list",
                res |-> handle_request(policy, create_dirs, fs, inodes,
                                       JsonRpcRequest("tools/list", None, Some(1))).res]
    /\ UNCHANGED <<server, policy, create_dirs, fs, inodes, call, changes>>

NextTools ==
    \/ \E name \in CalledNames, arguments \in CalledArguments :
          HandleToolCall(name, arguments)
    \/ ToolsList

SpecTools == InitTools /\ [][NextTools]_vars

----------------------------------------------------------------------------
(* Lines: one read_lines or one grep_file of /ws/a.txt per run, the file   *)
(* holding every text of up to MaxText bytes                               *)

MaxText == 5
MaxLine == 4

RECURSIVE TextsOf(_)
TextsOf(n) ==
    IF n = 0 THEN {<<>>}
    ELSE TextsOf(n - 1)
         \cup {Append(t, b) : t \in {u \in TextsOf(n - 1) : Len(u) = n - 1},
                              b \in {97, 98, 10}}

Texts == TextsOf(MaxText) \cup {<<255>>}

LineNumbers == {None} \cup {Some(n) : n \in 0..MaxLine}

Contexts == {None, Some(0), Some(1), Some(2), Some(usize_MAX - 1), Some(usize_MAX)}

Patterns == {<<97>>, <<40>>}

InitText ==
    /\ policy \in {pol \in ServerPolicies : ~pol.read_only}
    /\ create_dirs = TRUE
    /\ fs = Disk
    /\ \E text \in Texts : inodes = WithData(DiskData, 1, text)
    /\ call = Idle
    /\ last = Done("none", <<>>, <<>>, <<>>, Ok(TRUE))
    /\ calls = 0
    /\ changes = 0
    /\ NoRequests

ReadLines(path, start_line, end_line, tail) ==
    /\ last.op = "none"
    /\ calls' = calls + 1
    /\ last' = [op |-> "read_lines", path |-> path,
                args |-> [start_line |-> start_line, end_line |-> end_line, tail |-> tail],
                res |-> read_lines(policy, fs, inodes, path, start_line, end_line, tail)]
    /\ UNCHANGED <<server, policy, create_dirs, fs, inodes, call, changes>>

GrepFile(path, pattern, max_matches, context_lines) ==
    /\ last.op = "none"
    /\ calls' = calls + 1
    /\ \E overflow_checks \in BOOLEAN :
          last' = [op |-> "grep_file", path |-> path,
                   args |-> [pattern |-> pattern, max_matches |-> max_matches,
                             context_lines |-> context_lines],
                   res |-> grep_file(policy, fs, inodes, path, pattern, max_matches,
                                     context_lines, overflow_checks)]
    /\ UNCHANGED <<server, policy, create_dirs, fs, inodes, call, changes>>

NextText ==
    \/ \E start_line \in LineNumbers, end_line \in LineNumbers, tail \in LineNumbers :
          ReadLines(<<"ws", "a.txt">>, start_line, end_line, tail)
    \/ \E pattern \in Patterns, max_matches \in LineNumbers, context_lines \in Contexts :
          GrepFile(<<"ws", "a.txt">>, pattern, max_matches, context_lines)

SpecText == InitText /\ [][NextText]_vars

----------------------------------------------------------------------------
(* Validations by several callers of one policy, in any order; call holds *)
(* each caller's latest validation and its outcome                         *)

MaxCallers == 2
MaxValidations == 3

Callers == 1..MaxCallers

InitCallers ==
    /\ policy \in OpPolicies
    /\ create_dirs = TRUE
    /\ fs = Disk
    /\ inodes = DiskData
    /\ call = [c \in Callers |-> Done("none", <<>>, <<>>, <<>>, Ok(TRUE))]
    /\ last = Done("none", <<>>, <<>>, <<>>, Ok(TRUE))
    /\ calls = 0
    /\ changes = 0
    /\ NoRequests

ValidatedBy(caller, outcome) ==
    /\ calls < MaxValidations
    /\ calls' = calls + 1
    /\ call' = [call EXCEPT ![caller] = outcome]
    /\ last' = outcome
    /\ UNCHANGED <<server, policy, create_dirs, fs, inodes, changes>>

ValidateReadBy(caller, path) ==
    ValidatedBy(caller, Done("validate_read", path, <<>>, <<>>,
                             validate_read(policy, fs, path)))

ValidateWriteBy(caller, path) ==
    ValidatedBy(caller, Done("validate_write", path, <<>>, <<>>,
                             validate_write(policy, fs, path)))

NextCallers ==
    \/ \E caller \in Callers, path \in FilePaths : ValidateReadBy(caller, path)
    \/ \E caller \in Callers, path \in FilePaths : ValidateWriteBy(caller, path)

SpecCallers == InitCallers /\ [][NextCallers]_vars

----------------------------------------------------------------------------
(* Two callers of write_string at the same time, each call in its steps:   *)
(* the open with truncate, write_all, sync_all.  call holds each writer's  *)
(* position                                                                *)

Writers == {1, 2}

WritePaths == {<<"ws", "a.txt">>, <<"ws", "new", "n.txt">>}

WriteContents == {<<>>, <<98>>, <<99, 99>>}

InitWriters ==
    /\ policy \in ServerPolicies
    /\ create_dirs = TRUE
    /\ fs = Disk
    /\ inodes = DiskData
    /\ call = [w \in Writers |-> Idle]
    /\ last = Done("none", <<>>, <<>>, <<>>, Ok(TRUE))
    /\ calls = 0
    /\ changes = 0
    /\ NoRequests

Returned(w, path, content, res) ==
    /\ call' = [call EXCEPT ![w] = [pc |-> "done", path |-> path, content |-> content,
                                    res |-> res]]
    /\ last' = Done("write_string", path, <<>>, content, res)

Prepared(w, path, content, r) ==
    /\ fs' = r.fs
    /\ IF ~r.res.ok THEN Returned(w, path, content, r.res)
       ELSE /\ call' = [call EXCEPT ![w] = [pc |-> "validated", path |-> path,
                                            content |-> content,
                                            validated_path |-> r.res.val]]
            /\ UNCHANGED last

BeginWrite(w, path, content) ==
    /\ call[w].pc = "idle"
    /\ calls' = calls + 1
    /\ Prepared(w, path, content,
                write_prepared(policy, create_dirs, fs, validate_write(policy, fs, path),
                               content))
    /\ UNCHANGED <<server, policy, create_dirs, inodes, changes>>

OpenedForWrite(w, file) ==
    /\ fs' = file.fs
    /\ inodes' = file.inodes
    /\ IF ~file.res.ok
       THEN Returned(w, call[w].path, call[w].content, OpenError(file.res.err))
       ELSE /\ call' = [call EXCEPT ![w] = [pc |-> "opened", path |-> call[w].path,
                                            content |-> call[w].content,
                                            validated_path |-> call[w].validated_path,
                                            file |-> file.res.val, offset |-> 0]]
            /\ UNCHANGED last

OpenTruncate(w) ==
    /\ call[w].pc = "validated"
    /\ OpenedForWrite(w, OpenForWrite(fs, inodes, call[w].validated_path, TRUE))
    /\ UNCHANGED <<server, policy, create_dirs, calls, changes>>

WriteAll(w) ==
    /\ call[w].pc = "opened"
    /\ inodes' = WithData(inodes, call[w].file,
                          write_at(inodes[call[w].file], call[w].offset, call[w].content))
    /\ call' = [call EXCEPT ![w].pc = "written",
                            ![w].offset = call[w].offset + Len(call[w].content)]
    /\ UNCHANGED <<server, policy, create_dirs, fs, last, calls, changes>>

SyncAll(w) ==
    /\ call[w].pc = "written"
    /\ Returned(w, call[w].path, call[w].content, Ok(TRUE))
    /\ UNCHANGED <<server, policy, create_dirs, fs, inodes, calls, changes>>

NextWriters ==
    \/ \E w \in Writers, path \in WritePaths, content \in WriteContents :
          BeginWrite(w, path, content)
    \/ \E w \in Writers : OpenTruncate(w)
    \/ \E w \in Writers : WriteAll(w)
    \/ \E w \in Writers : SyncAll(w)

SpecWriters == InitWriters /\ [][NextWriters]_vars

----------------------------------------------------------------------------
(* Properties of validation, under SpecValidate *)

HasDotDot(path) == \E i \in 1..Len(path) : path[i] = DD

IsRead(op) == op \in {"validate_read", "read_to_string"}

\* the canonical form of a root of the policy, where it has one
UnderRoot(f, slot, roots) ==
    \E r \in roots : canonicalize(f, r).ok /\ starts_with(slot, canonicalize(f, r).val)

Hidden(name) == NameChars[name][1] = "."

\* C1 as stated: every requested path equal to or nested under an entry of
\* denied_paths (here: a path without ".." that begins with the entry) makes
\* validate_read return PermissionDenied.
C1_DeniedPathAlwaysPermissionDenied ==
    (/\ last.op = "validate_read"
     /\ ~HasDotDot(last.path)
     /\ \E denied \in policy.denied_paths : starts_with(last.path, denied))
    => last.res = Err("PermissionDenied")

\* C1 amended: a requested path that canonicalizes, and whose canonical form
\* is equal to or nested under the canonical form of an entry of
\* denied_paths, makes validate_read return PermissionDenied, whether or not
\* it is also under an allowed root.
C1_DenyPrecedence ==
    (/\ last.op = "validate_read"
     /\ canonicalize(fs, last.path).ok
     /\ UnderRoot(fs, canonicalize(fs, last.path).val, policy.denied_paths))
    => last.res = Err("PermissionDenied")

C1_Witness ==
    /\ last.op = "validate_read"
    /\ canonicalize(fs, last.path).ok
    /\ UnderRoot(fs, canonicalize(fs, last.path).val, policy.denied_paths)
    /\ UnderRoot(fs, canonicalize(fs, last.path).val, policy.allowed_paths)
    /\ policy.allowed_paths # {}
    /\ last.res = Err("PermissionDenied")

\* C2: with a non-empty allowed_paths, validate_read and read_to_string fail
\* on every path with ".." components whose canonical form lies outside
\* every allowed root, also when the path as given begins with an allowed
\* root.
C2_TraversalRejected ==
    (/\ IsRead(last.op)
     /\ policy.allowed_paths # {}
     /\ HasDotDot(last.path)
     /\ canonicalize(fs, last.path).ok
     /\ ~UnderRoot(fs, canonicalize(fs, last.path).val, policy.allowed_paths))
    => ~last.res.ok

C2_Witness ==
    /\ last.op = "read_to_string"
    /\ policy.allowed_paths # {}
    /\ policy.denied_paths = {}
    /\ HasDotDot(last.path)
    /\ \E allowed \in policy.allowed_paths : starts_with(last.path, allowed)
    /\ canonicalize(fs, last.path).ok
    /\ ~UnderRoot(fs, canonicalize(fs, last.path).val, policy.allowed_paths)
    /\ last.res = Err("PermissionDenied")

\* The extension rule in the words of C9, on a path: reject on a
\* case-insensitive match with denied_extensions; with a non-empty
\* allowed_extensions reject an extension outside it and a missing one.
SameExtension(a, b) == to_lowercase(a) = to_lowercase(b)

ExtensionRuleRejects(pol, path) ==
    \/ /\ extension(path).some
       /\ \E d \in pol.denied_extensions : SameExtension(extension(path).val, d)
    \/ /\ pol.allowed_extensions # {}
       /\ \/ ~extension(path).some
          \/ ~\E a \in pol.allowed_extensions : SameExtension(extension(path).val, a)

NoExtensionRule(pol) ==
    [pol EXCEPT !.allowed_extensions = {}, !.denied_extensions = {}]

\* C9: validate_read applies the extension rule to the canonical path and
\* validate_write to the target path as given: a path the rule rejects gets
\* PermissionDenied, and a path the rule accepts gets the result it has
\* under the same policy without extension lists.
C9_ExtensionRule ==
    /\ (last.op = "validate_read" /\ canonicalize(fs, last.path).ok) =>
          IF ExtensionRuleRejects(policy, canonicalize(fs, last.path).val)
          THEN last.res = Err("PermissionDenied")
          ELSE last.res = validate_read(NoExtensionRule(policy), fs, last.path)
    /\ last.op = "validate_write" =>
          IF ExtensionRuleRejects(policy, last.path)
          THEN last.res = Err("PermissionDenied")
          ELSE last.res = validate_write(NoExtensionRule(policy), fs, last.path)

\* an upper-case extension on disk, denied in lower case and allowed too
C9_Witness ==
    /\ last.op = "validate_read"
    /\ canonicalize(fs, last.path).ok
    /\ extension(canonicalize(fs, last.path).val) = Some(<<"E", "X", "E">>)
    /\ EXE \in policy.denied_extensions
    /\ EXE \in policy.allowed_extensions
    /\ UnderRoot(fs, canonicalize(fs, last.path).val, policy.allowed_paths)
    /\ ~UnderRoot(fs, canonicalize(fs, last.path).val, policy.denied_paths)
    /\ last.res = Err("PermissionDenied")

----------------------------------------------------------------------------
(* Properties of the file operations, under Spec *)

WriteOps ==
    {"write_string", "write_bytes", "append_string", "delete_file", "move_file",
     "copy_file", "create_directory", "create_directory_all",
     "remove_directory", "remove_directory_all"}

\* C3: with a non-empty allowed_paths, a write_string whose target path has
\* ".." components succeeds only if the file it wrote lies under an allowed
\* root, missing intermediate directories or not.
C3_NoTraversalWrite ==
    (/\ last.op = "write_string"
     /\ policy.allowed_paths # {}
     /\ HasDotDot(last.path)
     /\ last.res.ok)
    => /\ canonicalize(fs, last.path).ok
       /\ UnderRoot(fs, canonicalize(fs, last.path).val, policy.allowed_paths)

\* C4: in read-only mode every write-type operation returns
\* PermissionDenied, whatever its paths, and the disk is never changed.
C4_ReadOnly ==
    policy.read_only =>
        /\ fs = Disk
        /\ inodes = DiskData
        /\ last.op \in WriteOps => last.res = Err("PermissionDenied")

\* a second rejected call, on a new file in the allowed root
C4_Witness ==
    /\ policy.read_only
    /\ calls = 2
    /\ last.op = "write_string"
    /\ last.path = <<"ws", "n.txt">>
    /\ last.res = Err("PermissionDenied")
    /\ fs = Disk

\* C7: no write-type operation creates a file or a directory at a location
\* equal to or nested under an entry of denied_paths, whether or not that
\* entry exists on disk when the call is made.
C7_NothingCreatedUnderDenied ==
    \A slot \in DOMAIN fs :
        (\E denied \in policy.denied_paths : starts_with(slot, denied))
        => slot \in DOMAIN Disk

\* C8: after a successful write_string(p, c), read_to_string(p) under the
\* same policy, with no change to the disk in between, returns exactly c.
C8_RoundTrip ==
    (last.op = "write_string" /\ last.res.ok)
    => read_to_string(policy, fs, inodes, last.path) = Ok(last.content)

----------------------------------------------------------------------------
(* Properties of the read protocol, under SpecRace *)

\* C5: in read_to_string, read_to_bytes, read_lines and grep_file, whatever
\* another actor changes after validation, the metadata checked is that of
\* the object the open handle refers to, as it is when checked; and a call
\* that returns content returns what the operation makes of the bytes of that
\* same object, a regular file whose size when checked was within the cap.
C5_CheckedObjectIsRead ==
    [][/\ (call.pc = "opened" /\ call'.pc = "checked")
          => call'.metadata = metadata(inodes, call.file)
       /\ (call.pc = "checked" /\ call'.pc = "idle" /\ last'.res.ok)
          => /\ call.metadata.ino = call.file.ino
             /\ call.metadata.is_file
             /\ validate_file_size(policy, call.metadata.len).ok
             /\ \E overflow_checks \in BOOLEAN :
                   last'.res = returned(call.op, call.args, inodes[call.metadata.ino],
                                        overflow_checks)]_vars

\* read_to_bytes has returned the byte /ws/a.txt held when it was opened,
\* and a symbolic link stands at that path now
C5_Witness ==
    /\ call.pc = "idle"
    /\ last.op = "read_to_bytes"
    /\ last.to = <<"ws", "a.txt">>
    /\ last.res = Ok(<<97>>)
    /\ fs[<<"ws", "a.txt">>].kind = "link"

\* C6: when another actor puts a symbolic link in place of the validated
\* path, or of one of its components, after validate_read has returned,
\* read_to_string returns no content of a file found outside every allowed
\* root or under a denied root.
C6_NoReadThroughSwappedLink ==
    [][(/\ call.pc = "checked"
        /\ call.op = "read_to_string"
        /\ call'.pc = "idle"
        /\ last'.res.ok)
       => /\ UnderRoot(fs, call.file.at, policy.allowed_paths)
          /\ ~UnderRoot(fs, call.file.at, policy.denied_paths)]_vars

----------------------------------------------------------------------------
(* Symbolic links, under SpecValidate *)

\* C11: with allow_symlinks false, a read of a path that is itself a
\* symbolic link fails; when the link resolves the error is PermissionDenied,
\* from the allow-root check for a target outside every allowed root and
\* from the symlink check at the latest for a target inside one.
C11_LinkReadFails ==
    (/\ IsRead(last.op)
     /\ ~policy.allow_symlinks
     /\ read_link_ok(fs, last.path))
    => /\ ~last.res.ok
       /\ canonicalize(fs, last.path).ok => last.res = Err("PermissionDenied")

\* a link to a file inside the allowed root that every other check accepts
C11_Witness ==
    /\ last.op = "read_to_string"
    /\ ~policy.allow_symlinks
    /\ policy.allowed_paths # {}
    /\ read_link_ok(fs, last.path)
    /\ canonicalize(fs, last.path).ok
    /\ UnderRoot(fs, canonicalize(fs, last.path).val, policy.allowed_paths)
    /\ validate_read([policy EXCEPT !.allow_symlinks = TRUE], fs, last.path).ok
    /\ last.res = Err("PermissionDenied")

----------------------------------------------------------------------------
(* The size cap on writes, under Spec *)

Oversized(pol, content) == pol.max_file_size # 0 /\ Len(content) > pol.max_file_size

Unlimited(pol) == [pol EXCEPT !.max_file_size = 0]

\* C12: validate_file_size fails, with PermissionDenied, exactly on a size
\* above a non-zero cap; a write_string or write_bytes of content above the
\* cap returns PermissionDenied and leaves the disk as it was (no directory
\* created, no target created, truncated or modified); content within the
\* cap is written as if there were no cap.
C12_SizeCapOnWrites ==
    [][/\ \A size \in 0..3 :
             validate_file_size(policy, size)
               = IF policy.max_file_size # 0 /\ size > policy.max_file_size
                 THEN Err("PermissionDenied") ELSE Ok(TRUE)
       /\ (calls' = calls + 1 /\ last'.op \in {"write_string", "write_bytes"})
          => IF Oversized(policy, last'.content)
             THEN /\ last'.res = Err("PermissionDenied")
                  /\ fs' = fs
                  /\ inodes' = inodes
             ELSE /\ last'.res
                       = write_string(Unlimited(policy), create_dirs, fs, inodes,
                                      last'.path, last'.content).res
                  /\ fs' = write_string(Unlimited(policy), create_dirs, fs, inodes,
                                        last'.path, last'.content).fs]_vars

\* an oversized write to a target that passes validation and whose parent
\* directory is missing, with directory creation on: nothing was created
C12_Witness ==
    /\ last.op = "write_string"
    /\ calls = 1
    /\ create_dirs
    /\ Oversized(policy, last.content)
    /\ validate_write(policy, Disk, last.path).ok
    /\ ~exists(Disk, parent(last.path).val)
    /\ last.res = Err("PermissionDenied")
    /\ fs = Disk

----------------------------------------------------------------------------
(* Directory listings, under SpecList *)

\* the entries a listing of the directory dir finds without following a link
Discovered(f, dir, recursive) ==
    {x \in DOMAIN f :
        IF recursive THEN x # dir /\ starts_with(x, dir) ELSE Front(x) = dir}

\* C13: list_directory, recursive or not, validates every discovered entry
\* on its own with validate_read: every entry returned passes validate_read,
\* every entry of the directory that passes it is returned, an entry that
\* fails it is left out, and the call succeeds whenever the directory itself
\* passes validation and is a directory, whatever its entries.
C13_ListingFiltersEntries ==
    last.op = "list_directory" =>
        /\ (validate_read(policy, fs, last.path).ok
            /\ is_dir(fs, validate_read(policy, fs, last.path).val))
           => last.res.ok
        /\ last.res.ok =>
              /\ \A e \in last.res.val : validate_read(policy, fs, e.path).ok
              /\ \A x \in Discovered(fs, validate_read(policy, fs, last.path).val,
                                     last.content) :
                    validate_read(policy, fs, x).ok
                      <=> \E e \in last.res.val : e.path = x
              /\ ~last.content =>
                    \A e \in last.res.val :
                        e.path \in Discovered(fs, validate_read(policy, fs, last.path).val,
                                              FALSE)

\* a listing that returned some entries and left out some others
C13_Witness ==
    /\ last.op = "list_directory"
    /\ last.res.ok
    /\ last.res.val # {}
    /\ \E x \in Discovered(fs, validate_read(policy, fs, last.path).val, last.content) :
          /\ ~validate_read(policy, fs, x).ok
          /\ ~\E e \in last.res.val : e.path = x

\* C14: with a non-empty allowed_extensions, list_directory of a directory
\* inside an allowed root, whose name has no extension and which every check
\* other than the extension check accepts, succeeds, and the files it
\* returns have an extension of the allow-list.
C14_ListingUnderAllowedExtensions ==
    (/\ last.op = "list_directory"
     /\ policy.allowed_extensions # {}
     /\ policy.allowed_paths # {}
     /\ validate_read(NoExtensionRule(policy), fs, last.path).ok
     /\ is_dir(fs, canonicalize(fs, last.path).val)
     /\ ~extension(canonicalize(fs, last.path).val).some)
    => /\ last.res.ok
       /\ \A e \in last.res.val :
             e.is_file =>
                 /\ extension(e.path).some
                 /\ \E a \in policy.allowed_extensions :
                       SameExtension(extension(e.path).val, a)

----------------------------------------------------------------------------
(* Missing sources and paths outside the allowed roots, under Spec *)

IsCall(op) == calls' = calls + 1 /\ last'.op = op

SameDisk == fs' = fs /\ inodes' = inodes

\* C15: delete_file and move_file on a source that passes validation and
\* does not exist (for move_file: with a destination that passes validation
\* too) return FileNotFound and change nothing.
C15_MissingSourceIsFileNotFound ==
    [][(/\ \/ IsCall("delete_file")
           \/ IsCall("move_file") /\ validate_write(policy, fs, last'.to).ok
        /\ validate_write(policy, fs, last'.path).ok
        /\ ~exists(fs, last'.path))
       => (last'.res = Err("FileNotFound") /\ SameDisk)]_vars


\* the path with its ".." components taken out with the component before
RECURSIVE Lexical(_)
Lexical(p) ==
    IF p = <<>> THEN <<>>
    ELSE IF Last(p) = DD
    THEN (IF Lexical(Front(p)) = <<>> THEN <<>> ELSE Front(Lexical(Front(p))))
    ELSE Append(Lexical(Front(p)), Last(p))

\* the directory entry a path names lies outside every allowed root: where
\* the kernel finds it, its last component not followed, or by its
\* components where the path does not resolve
NamesOutside(pol, f, p) ==
    /\ pol.allowed_paths # {}
    /\ ~UnderRoot(f, IF Locate(f, p).ok THEN Locate(f, p).val ELSE Lexical(p),
                  pol.allowed_paths)

\* C16: a delete_file, move_file or copy_file whose source or destination
\* names a directory entry outside every allowed root returns an error and
\* changes nothing: the entries outside the allowed roots are as before,
\* the source still exists and no destination is created.
C16_OutsideArgumentsChangeNothing ==
    [][(/\ IsCall("delete_file") \/ IsCall("move_file") \/ IsCall("copy_file")
        /\ \/ NamesOutside(policy, fs, last'.path)
           \/ last'.op # "delete_file" /\ NamesOutside(policy, fs, last'.to))
       => (~last'.res.ok /\ SameDisk)]_vars

\* a move of a file of the allowed root to a new name outside it
C16_Witness ==
    /\ calls = 1
    /\ last.op = "move_file"
    /\ ~policy.read_only
    /\ validate_write(policy, Disk, last.path).ok
    /\ is_file(Disk, last.path)
    /\ NamesOutside(policy, Disk, last.to)
    /\ ~last.res.ok
    /\ fs = Disk

----------------------------------------------------------------------------
(* get_metadata with another actor, under SpecRace *)

\* C17: whatever another actor changes after validation, the metadata that
\* get_metadata returns is that of the object at the validated location:
\* the validated path is not resolved anew to some other place.
C17_MetadataOfValidatedObject ==
    [][(call.pc = "stat" /\ call'.pc = "idle" /\ last'.res.ok)
       => canonicalize(fs, call.validated_path) = Ok(call.validated_path)]_vars


\* C18: an append_string of content above a non-zero size cap returns
\* PermissionDenied and leaves the disk as it was, as write_string does.
C18_SizeCapOnAppend ==
    [][(IsCall("append_string") /\ Oversized(policy, last'.content))
       => (last'.res = Err("PermissionDenied") /\ SameDisk)]_vars

----------------------------------------------------------------------------
(* FileReader::exists and the policy, under SpecValidate *)

\* the disk without the object a path names
Absent(f, path) ==
    IF canonicalize(f, path).ok
    THEN WithoutEntries(f, {canonicalize(f, path).val} \cup Below(f, canonicalize(f, path).val))
    ELSE f

\* C19: for a path validate_read rejects with PermissionDenied, exists gives
\* the answer it would give were the object the path names not on the disk:
\* it does not report the presence of the path.
C19_ExistsHidesDeniedPaths ==
    (/\ last.op = "exists"
     /\ validate_read(policy, fs, last.path) = Err("PermissionDenied"))
    => last.res = Ok(FileReader_exists(Absent(fs, last.path), last.path))

----------------------------------------------------------------------------
(* The rate limiter in process_request, under SpecServer *)

Refused == to_string(RateLimitExceeded)

\* C20: process_request consults the limiter once, before anything else: the
\* limiter moves by one check; a request the limiter refuses, whatever it
\* holds, is answered with the 'Rate limit exceeded' error and changes
\* nothing on the disk, and a request it lets through is not; while no
\* interval has passed since the limiter was made, at most its quota of
\* requests has been let through.
C20_RateLimitFirst ==
    [][(calls' = calls + 1 /\ last'.op = "process_request")
       => /\ rate_limiter' = check(rate_limiter, clock).limiter
          /\ IF check(rate_limiter, clock).ok
             THEN admitted' = admitted + 1 /\ last'.res # Refused
             ELSE admitted' = admitted /\ last'.res = Refused /\ SameDisk
          /\ clock' = 0 => admitted' <= rate_limiter.quota.max_burst]_vars

C20_Witness ==
    /\ clock = 0
    /\ rate_limiter.quota.max_burst = 2
    /\ calls = 3
    /\ admitted = 2
    /\ ~policy.read_only
    /\ last.op = "process_request"
    /\ last.request_str
         = ToolCall("write_file", [path |-> <<"ws", "n.txt">>, content |-> <<97>>], Some(1))
    /\ last.res = Refused
    /\ fs = Disk

----------------------------------------------------------------------------
(* The tools of the interface, under SpecTools *)

Range(s) == {s[i] : i \in DOMAIN s}

\* the tools of the specification's interface table
InterfaceTable ==
    {"read_file", "write_file", "append_file", "delete_file", "move_file",
     "copy_file", "get_metadata", "file_exists", "list_directory",
     "create_directory", "remove_directory", "read_lines", "search_files",
     "grep_file"}

\* C21: every tool of the interface table is advertised by tools/list and
\* dispatched by handle_tool_call to its operation; ToolNotFound is the
\* answer only to a name outside the table.
C21_InterfaceTableServed ==
    /\ last.op = "tools/list"
       => InterfaceTable \subseteq Range(last.res.result.val.tools)
    /\ last.op = "handle_tool_call"
       => (last.res = Err("ToolNotFound") <=> last.name \notin InterfaceTable)

\* C29: the names tools/list advertises are the names handle_tool_call
\* dispatches: a call of an advertised name is handled (its answer is the
\* operation's result, or InvalidParameters), a call of any other name is
\* answered ToolNotFound.
C29_AdvertisedIsDispatched ==
    /\ last.op = "tools/list"
       => last.res = JsonRpcResponse_success(Some(1), [tools |-> list_tools])
    /\ last.op = "handle_tool_call"
       => (last.res = Err("ToolNotFound") <=> last.name \notin Range(list_tools))

C29_Witness ==
    /\ last.op = "handle_tool_call"
    /\ last.name = "copy_file"
    /\ ~policy.read_only
    /\ last.res.ok
    /\ is_file(fs, <<"ws", "n.txt">>)

----------------------------------------------------------------------------
(* read_lines and grep_file on every text, under SpecText *)

\* C22: read_lines of an existing readable file, with any start_line,
\* end_line and tail, returns a list of lines or a typed error: it does not
\* panic.
C22_ReadLinesReturns ==
    last.op = "read_lines" => last.res # Panic


MatchingLines(all_lines, pattern) ==
    {i \in 1..Len(all_lines) : is_match(pattern, all_lines[i])}

\* C26: grep_file returns the matching lines in ascending line order, each
\* with its 1-based number, its text, the min(N, lines before) lines before
\* it and the min(N, lines after) lines after it, N being context_lines or
\* 0; with max_matches, the first max_matches of them at most.
C26_GrepMatches ==
    (/\ last.op = "grep_file"
     /\ regex_ok(last.args.pattern)
     /\ Utf8(inodes[1]))
    => /\ last.res.ok
       /\ LET all_lines == lines(inodes[1])
              found == MatchingLines(all_lines, last.args.pattern)
              N == unwrap_or(last.args.context_lines, 0)
              m == last.res.val
          IN  /\ Len(m) = IF last.args.max_matches.some
                          THEN min(last.args.max_matches.val, Cardinality(found))
                          ELSE Cardinality(found)
              /\ \A k \in 1..Len(m) :
                    /\ m[k].line_number \in found
                    /\ m[k].line_content = all_lines[m[k].line_number]
                    /\ m[k].context_before
                         = SubSeq(all_lines,
                                  m[k].line_number - min(N, m[k].line_number - 1),
                                  m[k].line_number - 1)
                    /\ m[k].context_after
                         = SubSeq(all_lines, m[k].line_number + 1,
                                  m[k].line_number
                                    + min(N, Len(all_lines) - m[k].line_number))
                    /\ \A j \in 1..(k - 1) : m[j].line_number < m[k].line_number
                    /\ \A i \in found :
                          i < m[k].line_number => \E j \in 1..k : m[j].line_number = i

\* C30: for every context_lines of the machine word, the maximum included,
\* grep_file computes its window without overflow and without a slice whose
\* start lies after its end: the call returns a result and does not abort.
C30_ContextWindowInRange ==
    last.op = "grep_file" => last.res # Panic

----------------------------------------------------------------------------
(* Validation by several callers, under SpecCallers *)

----------------------------------------------------------------------------
(* Two write_string calls at the same time, under SpecWriters *)

Succeeded(w) == call[w].pc = "done" /\ call[w].res.ok

BothSucceeded ==
    /\ Succeeded(1)
    /\ Succeeded(2)
    /\ call[1].path = call[2].path

FinalContent == inodes[fs[call[1].path].ino]

\* C24: no lock orders two write_string calls on one path: a call that ran
\* alone leaves its content, and when both have returned success the file
\* is an overlay of the two contents, each byte that of one of the writers
\* at its place, which can be neither caller's content.
C24_WritesInterleave ==
    /\ \A w \in Writers :
          (Succeeded(w) /\ \A v \in Writers \ {w} : call[v].pc = "idle")
          => inodes[fs[call[w].path].ino] = call[w].content
    /\ BothSucceeded
       => /\ \A w \in Writers : call[w].path \in DOMAIN fs
          /\ \E w \in Writers : Len(FinalContent) <= Len(call[w].content)
          /\ \A i \in 1..Len(FinalContent) :
                \E w \in Writers :
                   i <= Len(call[w].content) /\ FinalContent[i] = call[w].content[i]

C24_Witness ==
    /\ BothSucceeded
    /\ call[1].content # call[2].content
    /\ FinalContent # call[1].content
    /\ FinalContent # call[2].content

----------------------------------------------------------------------------
(* Writes and appends in a row, under Spec *)

\* what the file a path leads to holds; nothing if there is no such file
ContentOf(f, ino, path) ==
    IF OpenTarget(f, path, MaxLinkHops).ok
       /\ OpenTarget(f, path, MaxLinkHops).val \in DOMAIN f
    THEN ino[f[OpenTarget(f, path, MaxLinkHops).val].ino]
    ELSE <<>>

\* C25: in a sequential run every successful append_string(p, c) leaves in p
\* what p held followed by c, a missing p being created with c, and every
\* successful write_string(p, d) leaves exactly d; so a write followed by
\* appends leaves c0 c1 ... cn in call order.
C25_AppendsFollowWrite ==
    [][/\ (IsCall("append_string") /\ last'.res.ok)
          => /\ ContentOf(fs', inodes', last'.path)
                  = ContentOf(fs, inodes, last'.path) \o last'.content
             /\ OpenTarget(fs', last'.path, MaxLinkHops).val \in DOMAIN fs'
       /\ (IsCall("write_string") /\ last'.res.ok)
          => ContentOf(fs', inodes', last'.path) = last'.content
       /\ (IsCall("append_string") /\ last'.res.ok
             /\ last.op = "write_string" /\ last.res.ok /\ last.path = last'.path)
          => ContentOf(fs', inodes', last'.path) = last.content \o last'.content]_vars

\* /ws/n.txt, missing at first, was written with "ab", then "a" was appended
\* to it: it holds "aba"
C25_Witness ==
    /\ calls = 2
    /\ last.op = "append_string"
    /\ last.path = <<"ws", "n.txt">>
    /\ last.content = <<97>>
    /\ last.res.ok
    /\ ContentOf(fs, inodes, <<"ws", "n.txt">>) = <<97, 98, 97>>


\* a location outside every allowed root
OutsideRoots(pol, slot) == \A root \in pol.allowed_paths : ~starts_with(slot, root)

\* the path names a symbolic link: its last component is one
NamesLink(f, path) ==
    /\ Locate(f, path).ok
    /\ Locate(f, path).val \in DOMAIN f
    /\ f[Locate(f, path).val].kind = "link"

\* C27: with a non-empty allowed_paths, a write_string, write_bytes or
\* append_string whose path names a symbolic link inside an allowed root, a
\* dangling one included, creates and modifies no file outside the allowed
\* roots.
C27_NoWriteThroughLink ==
    [][(/\ \/ IsCall("write_string") \/ IsCall("write_bytes") \/ IsCall("append_string")
        /\ policy.allowed_paths # {}
        /\ NamesLink(fs, last'.path)
        /\ ~OutsideRoots(policy, Locate(fs, last'.path).val))
       => \A slot \in DOMAIN fs' :
             OutsideRoots(policy, slot)
             => /\ slot \in DOMAIN fs
                /\ fs'[slot] = fs[slot]
                /\ fs[slot].kind = "file" => inodes'[fs'[slot].ino] = inodes[fs[slot].ino]]_vars

----------------------------------------------------------------------------
(* Reads outside the allowed roots, under SpecValidate *)

\* C28: with a non-empty allowed_paths, read_to_string of a path outside
\* the allowed roots gives the same result on two disks that differ only in
\* files outside the allowed roots: the result on the disk is the result on
\* the disk without the object the path names.
C28_NoOracleOutside ==
    (/\ last.op = "read_to_string"
     /\ policy.allowed_paths # {}
     /\ OutsideRoots(policy, Lexical(last.path))
     /\ is_file(fs, last.path)
     /\ OutsideRoots(policy, canonicalize(fs, last.path).val))
    => last.res = read_to_string(policy, Absent(fs, last.path), inodes, last.path)

====
